---- MODULE Spec2Model ----
(***************************************************************************)
(* Model of klippy/extras/heaters.py: the Heater object, its PWM output    *)
(* scheduling, the three control algorithms and the operations that        *)
(* change the target and the active algorithm.                             *)
(*                                                                         *)
(* Units.  Python floats are modelled as fixed-point integers:             *)
(*   time         1 unit = 0.25 s   (MAX_HEAT_TIME = 5.0 s  = 20 units)    *)
(*   duty cycle   1 unit = 0.01     (max_power 1.0 = 100, 0.05 = 5)        *)
(*   temperature  1 unit = 1 degree                                        *)
(* Quotients that are not exact are rounded toward zero (Quot).            *)
(***************************************************************************)
EXTENDS Integers, Sequences, FiniteSets, TLC

\* ------------------------------------------------------------------ bounds
\* Number of samples the sensor delivers in a run.
MaxSamples == 4
\* Number of commands (set_temp, set_control, shutdown event) in a run.
MaxCommands == 2
\* PID_PROFILE commands per run, and sensor samples between them
MaxProfileCommands == 3
MaxProfileSamples == 1
\* commands issued to the registry of heaters
MaxRegistryCommands == 6
\* commands issued around a blocking wait
MaxWaitCommands == 3
\* commands issued to the temperature fan, its set-up included
MaxFanCommands == 3

\* --------------------------------------------------------------- constants
MAX_HEAT_TIME == 20
AMBIENT_TEMP == 25
PID_PARAM_BASE == 255
\* get_temp: "estimated_print_time(eventtime) - 5."
STALE_TIME == 20
\* set_pwm: "abs(value - self.last_pwm_value) < 0.05"
PWM_MIN_CHANGE == 5
\* fixed-point scale of the smoothed derivatives kept by the PID algorithms
DER_SCALE == 10

\* ------------------------------------------------------------ input sets
\* get_temp callers ask at the staleness threshold of the latest sample
\* and one time unit past it.
StaleOffsets == {0, 1}
\* Temperatures the sensor reports.
Temps == {20, 199}
\* Arguments of set_temp.
Degrees == {-5, 0, 200, 220}
\* Configurations: min_temp, max_set_temp, max_temp, max_power and the
\* sensor's report interval (get_report_time_delta): 0.75 s and 6 s.
Configs == {<<10, 200, 250, 60, 3>>, <<-10, 200, 250, 100, 24>>}

VARIABLES
    \* Heater configuration (set in __init__, never reassigned)
    min_temp, max_temp, max_set_temp, pwm_delay, max_power, min_extrude_temp,
    \* Heater state
    smooth_time, inv_smooth_time, is_shutdown,
    last_temp, smoothed_temp, target_temp, last_temp_time,
    next_pwm_time, last_pwm_value, can_extrude,
    control,
    \* the output channel: writes issued by the latest operation, and the
    \* latest write ever issued (<<>> before the first one)
    mcu_pwm, mcu_last,
    \* history: the latest operation and its outcome, the latest two set_pwm
    \* calls, and the target of the latest successful set_temp (<<degrees>>)
    \* while no other operation has changed the target since
    op, pwm_calls, set_target,
    \* number of commands issued so far
    ncmd,
    \* ProfileManager: the profile dicts that exist (heap, by object number),
    \* the profiles map from names to dicts, the dict of the active
    \* algorithm (control.profile is heap[live]), the names skipped at
    \* start-up, and the sections staged in the config file
    heap, profiles, live, incompatible_profiles, configfile,
    \* Heater.lock (the context that holds it, or "free"); where the
    \* sensor thread stands inside temperature_callback and the command
    \* thread inside the construction of an algorithm (<<>> outside); and
    \* the accesses to lock-guarded fields made without holding the lock
    lock, sensor_pc, cmd_pc, unlocked,
    \* PrinterHeaters (the registry of heaters and sensors, with the
    \* printer's shutdown state and the command that is blocked in a wait
    \* loop), and the TemperatureFan (<<>> while no section configures one)
    pheaters, tfan,
    \* the RunoutHelper of a filament_switch_sensor section (<<>> while no
    \* section configures one), with the reactor and printer state it reads
    runout_helper

config == <<min_temp, max_temp, max_set_temp, pwm_delay, max_power,
            min_extrude_temp>>
hstate == <<smooth_time, inv_smooth_time, is_shutdown, last_temp,
            smoothed_temp, target_temp, last_temp_time, next_pwm_time,
            last_pwm_value, can_extrude, control>>
pmgr == <<heap, profiles, live, incompatible_profiles, configfile>>
threads == <<lock, sensor_pc, cmd_pc, unlocked>>
periph == <<pheaters, tfan, runout_helper>>
vars == <<config, hstate, mcu_pwm, mcu_last, op, pwm_calls, set_target,
          ncmd, pmgr, threads, periph>>

\* ----------------------------------------------------------------- helpers
Quot(a, b) == IF a >= 0 THEN a \div b ELSE -((-a) \div b)
Abs(a) == IF a >= 0 THEN a ELSE -a
Min(a, b) == IF a <= b THEN a ELSE b
Max(a, b) == IF a >= b THEN a ELSE b
NoTarget == <<>>
LastTwo(q) == IF Len(q) <= 2 THEN q ELSE SubSeq(q, Len(q) - 1, Len(q))

\* ----------------------------------------------------------------- set_pwm
\* Heater.set_pwm(read_time, value): the effective value, whether the write
\* is suppressed, and the fields after the call.
\* Mutant: the shutdown latch is not consulted.
PwmForcedOffTargetOnly == target_temp <= 0

PwmForcedOff == target_temp <= 0 \/ is_shutdown

\* Mutant: the requested duty is used as it is, never forced to 0.
PwmEffectiveAsRequested(value) == value

PwmEffective(value) == IF PwmForcedOff THEN 0 ELSE value

\* Mutant: a small change is suppressed whatever the re-issue deadline.
PwmSuppressedNoDeadline(read_time, value) ==
    Abs(value - last_pwm_value) < PWM_MIN_CHANGE

\* Mutant: the deadline is compared with the scheduled time of the write.
PwmSuppressedByPwmTime(read_time, value) ==
    /\ (read_time + pwm_delay < next_pwm_time \/ last_pwm_value = 0)
    /\ Abs(value - last_pwm_value) < PWM_MIN_CHANGE

\* Mutant: the size of the change is not looked at.
PwmSuppressedAnyChange(read_time, value) ==
    read_time < next_pwm_time \/ last_pwm_value = 0

PwmSuppressed(read_time, value) ==
    /\ (read_time < next_pwm_time \/ last_pwm_value = 0)
    /\ Abs(value - last_pwm_value) < PWM_MIN_CHANGE

set_pwm(read_time, value) ==
    LET v == PwmEffective(value)
        pwm_time == read_time + pwm_delay
    IN  IF PwmSuppressed(read_time, v)
        THEN [wrote |-> FALSE, writes |-> <<>>,
              next_pwm_time |-> next_pwm_time,
              last_pwm_value |-> last_pwm_value]
        ELSE [wrote |-> TRUE,
              writes |-> << [time |-> pwm_time, value |-> v] >>,
              next_pwm_time |-> pwm_time + (3 * MAX_HEAT_TIME) \div 4,
              last_pwm_value |-> v]

\* ------------------------------------------------------- ControlBangBang
ControlBangBang(profile) ==
    [kind |-> "watermark", profile |-> profile,
     max_delta |-> profile.max_delta, heating |-> FALSE]

\* Mutant: a plain thermostat, heating whenever temp is below the target.
BangBang_update_no_hysteresis(c, read_time, temp, target) ==
    LET heating == temp < target
    IN  [control |-> [c EXCEPT !.heating = heating],
         value |-> IF heating THEN max_power ELSE 0]

\* Mutant: heating turns on only below target - 2 * max_delta.
BangBang_update_double_band(c, read_time, temp, target) ==
    LET heating == IF c.heating /\ temp >= target + c.max_delta THEN FALSE
                   ELSE IF ~c.heating /\ temp <= target - 2 * c.max_delta
                        THEN TRUE
                   ELSE c.heating
    IN  [control |-> [c EXCEPT !.heating = heating],
         value |-> IF heating THEN max_power ELSE 0]

\* ControlBangBang.temperature_update: the algorithm after the update and
\* the duty it passes to set_pwm.
BangBang_update(c, read_time, temp, target) ==
    LET heating == IF c.heating /\ temp >= target + c.max_delta THEN FALSE
                   ELSE IF ~c.heating /\ temp <= target - c.max_delta THEN TRUE
                   ELSE c.heating
    IN  [control |-> [c EXCEPT !.heating = heating],
         value |-> IF heating THEN max_power ELSE 0]

\* ---------------------------------------------------------------- get_temp
\* Heater.get_temp(eventtime); est is estimated_print_time(eventtime).
\* Mutant: a stale reading also reports no target.
get_temp_stale_clears_target(est) ==
    IF last_temp_time < est - STALE_TIME
    THEN <<0, 0>>
    ELSE <<smoothed_temp, target_temp>>

\* Mutant: a sample exactly at the threshold counts as stale.
get_temp_inclusive(est) ==
    IF last_temp_time <= est - STALE_TIME
    THEN <<0, target_temp>>
    ELSE <<smoothed_temp, target_temp>>

get_temp(est) ==
    IF last_temp_time < est - STALE_TIME
    THEN <<0, target_temp>>
    ELSE <<smoothed_temp, target_temp>>

\* ------------------------------------------------------------- ControlPID
\* A profile's smooth_time is <<>> (None) or <<value>>.
ProfileSmoothTime(profile) ==
    IF profile.smooth_time = <<>> THEN smooth_time ELSE profile.smooth_time[1]

\* ControlPID.__init__.  smooth (1 + smooth_time / dt) is kept as its
\* numerator over dt, smooth_time + dt; int_sum is kept in units of
\* 1/8 degree*s and prev_der in units of 1/DER_SCALE degree/s.
ControlPID(profile, load_clean, est) ==
    [kind |-> "pid", profile |-> profile,
     dt |-> pwm_delay,
     Kp |-> profile.pid_kp, Ki |-> profile.pid_ki, Kd |-> profile.pid_kd,
     smooth |-> ProfileSmoothTime(profile) + pwm_delay,
     prev_temp |-> IF load_clean THEN AMBIENT_TEMP ELSE get_temp(est)[1],
     prev_err |-> 0, prev_der |-> 0, int_sum |-> 0]

Sign(x) == IF x > 0 THEN 1 ELSE IF x < 0 THEN -1 ELSE 0

\* The raw output o of ControlPID.temperature_update in duty units.
PID_output(c, err, i, dc) ==
    Quot(100 * c.Kp * err, PID_PARAM_BASE)
    + Quot(100 * c.Ki * i, 8 * PID_PARAM_BASE)
    + Quot(100 * c.Kd * dc, DER_SCALE * PID_PARAM_BASE)

\* Mutant: the sign test of the anti-windup is inverted.
PID_integrates_same_sign(o, so, ic) == o = so \/ Sign(o) = Sign(ic)

\* Anti-windup: whether int_sum takes the candidate i (target_temp > 0).
PID_integrates(o, so, ic) == o = so \/ Sign(o) # Sign(ic)

\* The locals of ControlPID.temperature_update (lines 696-708).
PID_terms(c, temp, target) ==
    LET err == target - temp
        ic == (c.prev_err + err) * c.dt
        i == c.int_sum + ic
        dc == Quot((c.smooth - c.dt) * c.prev_der
                   - 4 * DER_SCALE * (temp - c.prev_temp), c.smooth)
        o == PID_output(c, err, i, dc)
    IN  [err |-> err, ic |-> ic, i |-> i, dc |-> dc, o |-> o,
         so |-> Max(0, Min(max_power, o))]

\* Mutant: prev_err and int_sum are kept up whatever the target.
PID_update_no_idle_reset(c, read_time, temp, target) ==
    LET t == PID_terms(c, temp, target)
    IN  [control |->
            [c EXCEPT !.prev_temp = temp,
                      !.prev_der = t.dc,
                      !.prev_err = t.err,
                      !.int_sum = IF PID_integrates(t.o, t.so, t.ic)
                                  THEN t.i ELSE c.int_sum],
         value |-> t.so]

PID_update(c, read_time, temp, target) ==
    LET t == PID_terms(c, temp, target)
    IN  [control |->
            [c EXCEPT !.prev_temp = temp,
                      !.prev_der = t.dc,
                      !.prev_err = IF target > 0 THEN t.err ELSE 0,
                      !.int_sum = IF target > 0
                                  THEN (IF PID_integrates(t.o, t.so, t.ic)
                                        THEN t.i ELSE c.int_sum)
                                  ELSE 0],
         value |-> t.so]

\* ----------------------------------------------------- ControlVelocityPID
\* ControlVelocityPID.__init__.  d1 is kept in units of 1/DER_SCALE degree,
\* d2 in units of 1/DER_SCALE degree/s.
ControlVelocityPID(profile, load_clean, est) ==
    LET t0 == IF load_clean THEN AMBIENT_TEMP ELSE get_temp(est)[1]
    IN  [kind |-> "pid_v", profile |-> profile,
         Kp |-> profile.pid_kp, Ki |-> profile.pid_ki, Kd |-> profile.pid_kd,
         smooth_time |-> ProfileSmoothTime(profile),
         temps |-> <<t0, t0, t0>>, times |-> <<0, 0, 0>>,
         d1 |-> 0, d2 |-> 0,
         pwm |-> IF load_clean THEN 0 ELSE last_pwm_value]

\* Moving average "((n - 1.) * d + raw) / n" with
\* n = max(1., smooth_time / dt).
VPID_smooth(st, dt, d, raw) ==
    IF st <= dt THEN raw ELSE Quot((st - dt) * d + dt * raw, st)

\* Mutant: the output is not reset to 0 when the target is 0 or below.
VPID_update_no_idle(c, read_time, temp, target) ==
    LET temps == <<c.temps[2], c.temps[3], temp>>
        times == <<c.times[2], c.times[3], read_time>>
        dt == times[3] - times[2]
        d1raw == DER_SCALE * (temps[3] - temps[2])
        error == dt * (target - temps[3])
        d2raw == Quot(4 * DER_SCALE * (temps[3] - 2 * temps[2] + temps[1]), dt)
        d1 == VPID_smooth(c.smooth_time, dt, c.d1, d1raw)
        d2 == VPID_smooth(c.smooth_time, dt, c.d2, d2raw)
        p == Quot(100 * c.Kp * (-d1), DER_SCALE * PID_PARAM_BASE)
        i == Quot(100 * c.Ki * error, 4 * PID_PARAM_BASE)
        d == Quot(100 * c.Kd * (-d2), DER_SCALE * PID_PARAM_BASE)
        pwm == Max(0, Min(max_power, c.pwm + p + i + d))
    IN  [control |-> [c EXCEPT !.temps = temps, !.times = times,
                               !.d1 = d1, !.d2 = d2, !.pwm = pwm],
         value |-> pwm]

\* Mutant: the output is not limited to [0, max_power].
VPID_update_unclamped(c, read_time, temp, target) ==
    LET u == VPID_update_no_idle(c, read_time, temp, target)
        temps == u.control.temps
        dt == u.control.times[3] - u.control.times[2]
        p == Quot(100 * c.Kp * (-u.control.d1), DER_SCALE * PID_PARAM_BASE)
        i == Quot(100 * c.Ki * dt * (target - temps[3]), 4 * PID_PARAM_BASE)
        d == Quot(100 * c.Kd * (-u.control.d2), DER_SCALE * PID_PARAM_BASE)
        pwm == IF target > 0 THEN c.pwm + p + i + d ELSE 0
    IN  [control |-> [u.control EXCEPT !.pwm = pwm], value |-> pwm]

\* ControlVelocityPID.temperature_update.  Samples arrive one report interval
\* apart, so the divisor dt of lines 792 and 796 is positive.
VPID_update(c, read_time, temp, target) ==
    LET temps == <<c.temps[2], c.temps[3], temp>>
        times == <<c.times[2], c.times[3], read_time>>
        dt == times[3] - times[2]
        d1raw == DER_SCALE * (temps[3] - temps[2])
        error == dt * (target - temps[3])
        d2raw == Quot(4 * DER_SCALE * (temps[3] - 2 * temps[2] + temps[1]), dt)
        d1 == VPID_smooth(c.smooth_time, dt, c.d1, d1raw)
        d2 == VPID_smooth(c.smooth_time, dt, c.d2, d2raw)
        p == Quot(100 * c.Kp * (-d1), DER_SCALE * PID_PARAM_BASE)
        i == Quot(100 * c.Ki * error, 4 * PID_PARAM_BASE)
        d == Quot(100 * c.Kd * (-d2), DER_SCALE * PID_PARAM_BASE)
        pwm == IF target > 0
               THEN Max(0, Min(max_power, c.pwm + p + i + d))
               ELSE 0
    IN  [control |-> [c EXCEPT !.temps = temps, !.times = times,
                               !.d1 = d1, !.d2 = d2, !.pwm = pwm],
         value |-> pwm]

\* control.temperature_update(read_time, temp, target_temp), by kind.
temperature_update(c, read_time, temp, target) ==
    CASE c.kind = "watermark" -> BangBang_update(c, read_time, temp, target)
      [] c.kind = "pid" -> PID_update(c, read_time, temp, target)
      [] c.kind = "pid_v" -> VPID_update(c, read_time, temp, target)

\* Heater.lookup_control(profile, load_clean): the new algorithm and the
\* inv_smooth_time its constructor leaves on the heater.  inv_smooth_time
\* is kept as its reciprocal (the smooth time it is the inverse of).
lookup_control(profile, load_clean, est) ==
    CASE profile.control = "watermark" ->
            [control |-> ControlBangBang(profile),
             inv_smooth_time |-> inv_smooth_time]
      [] profile.control = "pid" ->
            [control |-> ControlPID(profile, load_clean, est),
             inv_smooth_time |-> ProfileSmoothTime(profile)]
      [] profile.control = "pid_v" ->
            [control |-> ControlVelocityPID(profile, load_clean, est),
             inv_smooth_time |-> ProfileSmoothTime(profile)]

\* ---------------------------------------------------------------- profiles
WatermarkProfile ==
    [name |-> "default", control |-> "watermark", max_delta |-> 2]

\* A proportional-only PID profile (pid_ki = pid_kd = 0).
PidProfile ==
    [name |-> "default", control |-> "pid",
     pid_kp |-> 8, pid_ki |-> 0, pid_kd |-> 0,
     smooth_time |-> <<>>, pid_target |-> <<>>, pid_tolerance |-> <<>>]

PidVProfile ==
    [name |-> "default", control |-> "pid_v",
     pid_kp |-> 8, pid_ki |-> 1, pid_kd |-> 2,
     smooth_time |-> <<>>, pid_target |-> <<>>, pid_tolerance |-> <<>>]

Profiles == {WatermarkProfile, PidProfile, PidVProfile}

\* A PID profile with all three gains.
PidTunedProfile ==
    [name |-> "default", control |-> "pid",
     pid_kp |-> 8, pid_ki |-> 1, pid_kd |-> 2,
     smooth_time |-> <<>>, pid_target |-> <<>>, pid_tolerance |-> <<>>]

\* A watermark profile with max_delta: 5.
WideWatermarkProfile ==
    [name |-> "default", control |-> "watermark", max_delta |-> 5]

\* ---------------------------------------------------------- ProfileManager
PID_PROFILE_VERSION == 1
\* The keys of PID_PROFILE_OPTIONS, in the order save_profile writes them.
PID_PROFILE_OPTIONS ==
    <<"pid_target", "pid_tolerance", "control", "smooth_time",
      "pid_kp", "pid_ki", "pid_kd">>
\* Heater.short_name
ShortName == "extruder"

\* ProfileManager._compute_section_name(profile_name)
compute_section_name(profile_name) ==
    IF profile_name = "default" THEN ShortName
    ELSE "pid_profile " \o ShortName \o " " \o profile_name

\* The value a profile dict holds under key: <<>> for None, else <<value>>.
ProfileValue(profile, key) ==
    IF key \in {"pid_target", "pid_tolerance", "smooth_time"}
    THEN profile[key]
    ELSE <<profile[key]>>

\* A config section without any of the profile options.
EmptySection ==
    [pid_version |-> <<>>, control |-> <<>>, max_delta |-> <<>>,
     pid_target |-> <<>>, pid_tolerance |-> <<>>, smooth_time |-> <<>>,
     pid_kp |-> <<>>, pid_ki |-> <<>>, pid_kd |-> <<>>]

\* The config section a profile was read from by _init_profile.
SectionOf(version, profile) ==
    [k \in DOMAIN EmptySection |->
        IF k = "pid_version" THEN version
        ELSE IF k \in DOMAIN profile THEN ProfileValue(profile, k)
        ELSE <<>>]

\* configfile.set(section, key, value) on the staged sections cf.
configfile_set(cf, section, key, value) ==
    IF section \in DOMAIN cf
    THEN [cf EXCEPT ![section][key] = value]
    ELSE cf @@ (section :> [EmptySection EXCEPT ![key] = value])

\* The loop of save_profile (lines 483-490) over the first n options: the
\* options of temp_profile that are not None are written to the section.
RECURSIVE save_options(_, _, _, _)
save_options(cf, section, profile, n) ==
    IF n = 0 THEN cf
    ELSE LET key == PID_PROFILE_OPTIONS[n]
             before == save_options(cf, section, profile, n - 1)
             value == ProfileValue(profile, key)
         IN  IF value = <<>> THEN before
             ELSE configfile_set(before, section, key, value)

\* ProfileManager.__init__ and init_default_profile: _init_profile keeps the
\* stored sections of the current version, notes the names of the others,
\* and the heater's own section becomes the profile "default".
ProfileManagerInit(stored, profile) ==
    LET ok == SelectSeq(stored,
                        LAMBDA sec : sec.pid_version = PID_PROFILE_VERSION)
        bad == SelectSeq(stored,
                         LAMBDA sec : sec.pid_version # PID_PROFILE_VERSION)
        names == {ok[i].profile.name : i \in DOMAIN ok}
    IN  /\ heap = [i \in DOMAIN ok |-> ok[i].profile] \o <<profile>>
        /\ profiles =
              [n \in names \cup {"default"} |->
                  IF n = "default" THEN Len(ok) + 1
                  ELSE CHOOSE i \in DOMAIN ok : ok[i].profile.name = n]
        /\ live = Len(ok) + 1
        /\ incompatible_profiles = [i \in DOMAIN bad |-> bad[i].profile.name]
        /\ configfile =
              [sec \in {compute_section_name(stored[i].profile.name) :
                           i \in DOMAIN stored} \cup {ShortName} |->
                  IF sec = ShortName THEN SectionOf(<<>>, profile)
                  ELSE LET i == CHOOSE j \in DOMAIN stored :
                                  compute_section_name(stored[j].profile.name)
                                      = sec
                       IN  SectionOf(<<stored[i].pid_version>>,
                                     stored[i].profile)]

\* -------------------------------------------------------------------- Init
\* Heater.__init__: the state after construction with configuration c
\* (min_temp, max_set_temp, max_temp, max_power, report interval) and the
\* default profile of the heater's own config section.
\* PrinterHeaters.__init__: nothing registered.  heaters maps a heater name
\* to a Heater object: object 0 is the Heater whose fields are the variables
\* of this module, object n > 0 is objs[n], a Heater reduced to the fields
\* set_temp and set_temperature use.  shutdown is printer.is_shutdown();
\* waiting is <<>> or the state of the command blocked in a wait loop.
PrinterHeaters ==
    [heaters |-> <<>>, objs |-> <<>>, gcode_id_to_sensor |-> <<>>,
     available_heaters |-> <<>>, available_sensors |-> <<>>,
     shutdown |-> FALSE, waiting |-> <<>>]

HeaterInit(c, profile) ==
    /\ min_temp = c[1]
    /\ max_set_temp = c[2]
    /\ max_temp = c[3]
    /\ max_power = c[4]
    /\ pwm_delay = c[5]
    /\ min_extrude_temp = 170
    /\ smooth_time = 8
    /\ is_shutdown = FALSE
    /\ last_temp = 0 /\ smoothed_temp = 0 /\ target_temp = 0
    /\ last_temp_time = 0
    /\ next_pwm_time = 0
    /\ last_pwm_value = 0
    /\ can_extrude = (min_extrude_temp <= 0)
    /\ inv_smooth_time = smooth_time
    /\ control = lookup_control(profile, TRUE, 0).control
    /\ mcu_pwm = <<>>
    /\ mcu_last = <<>>
    /\ op = [name |-> "init", args |-> <<>>, result |-> "ok", ret |-> <<>>]
    /\ pwm_calls = <<>>
    /\ set_target = NoTarget
    /\ ncmd = 0
    /\ lock = "free"
    /\ sensor_pc = <<>>
    /\ cmd_pc = <<>>
    /\ unlocked = {}
    /\ pheaters = PrinterHeaters
    /\ tfan = <<>>
    /\ runout_helper = <<>>

\* ProfileManager.__init__ before any profile is registered (lines 258-259).
\* The specifications of the heater on its own leave the profile manager
\* there: none of their operations reads or writes it.
ProfileManagerIdle ==
    /\ heap = <<>>
    /\ profiles = <<>>
    /\ live = 0
    /\ incompatible_profiles = <<>>
    /\ configfile = <<>>

Init ==
    \E c \in Configs, profile \in Profiles :
        /\ HeaterInit(c, profile)
        /\ ProfileManagerIdle

\* ----------------------------------------------------------------- actions
Op(name, args, result, ret) ==
    [name |-> name, args |-> args, result |-> result, ret |-> ret]

\* The values temperature_callback computes from a sample: the result of
\* control.temperature_update, of its set_pwm, and the new smoothed_temp.
callback_result(read_time, temp) ==
    LET time_diff == read_time - last_temp_time
        u == temperature_update(control, read_time, temp, target_temp)
        w == set_pwm(read_time, u.value)
        temp_diff == temp - smoothed_temp
        smoothed == smoothed_temp
                    + Quot(temp_diff * Min(time_diff, inv_smooth_time),
                           inv_smooth_time)
    IN  [u |-> u, w |-> w, smoothed |-> smoothed]

\* Heater.temperature_callback(read_time, temp).  The sensor reports every
\* pwm_delay (get_report_time_delta), so read_time is one report interval
\* after the previous sample.
temperature_callback(temp) ==
    \E read_time \in {last_temp_time + pwm_delay} :
    \E r \in {callback_result(read_time, temp)} :
    LET u == r.u
        w == r.w
        smoothed == r.smoothed
    IN  /\ read_time <= MaxSamples * pwm_delay
        /\ last_temp' = temp
        /\ last_temp_time' = read_time
        /\ control' = u.control
        /\ next_pwm_time' = w.next_pwm_time
        /\ last_pwm_value' = w.last_pwm_value
        /\ mcu_pwm' = w.writes
        /\ mcu_last' = IF w.wrote THEN w.writes ELSE mcu_last
        /\ smoothed_temp' = smoothed
        /\ can_extrude' = (smoothed >= min_extrude_temp)
        /\ pwm_calls' = LastTwo(Append(pwm_calls,
                            [read_time |-> read_time, value |-> u.value,
                             forced |-> PwmForcedOff, wrote |-> w.wrote]))
        /\ op' = Op("temperature_callback", <<read_time, temp>>, "ok", <<>>)
        /\ UNCHANGED <<periph, threads, pmgr, config, smooth_time,
                       inv_smooth_time, is_shutdown, target_temp, set_target,
                       ncmd>>

\* Heater._handle_shutdown, the "klippy:shutdown" event handler.
handle_shutdown ==
    /\ ncmd < MaxCommands
    /\ ncmd' = ncmd + 1
    /\ is_shutdown' = TRUE
    /\ mcu_pwm' = <<>>
    /\ op' = Op("_handle_shutdown", <<>>, "ok", <<>>)
    /\ UNCHANGED <<periph, threads, pmgr, config, smooth_time, inv_smooth_time,
                   last_temp, smoothed_temp, target_temp, last_temp_time,
                   next_pwm_time, last_pwm_value, can_extrude, control,
                   mcu_last, pwm_calls, set_target>>

\* Mutant: the upper limit checked is max_temp instead of max_set_temp.
SetTempOutOfRangeMaxTemp(degrees) ==
    degrees # 0 /\ (degrees < min_temp \/ degrees > max_temp)

\* Heater.set_temp(degrees): the range check of line 177.
SetTempOutOfRange(degrees) ==
    degrees # 0 /\ (degrees < min_temp \/ degrees > max_set_temp)

\* Mutant: an accepted set_temp also clears the shutdown latch.
set_temp_clears_shutdown(degrees) ==
    /\ ncmd < MaxCommands
    /\ ncmd' = ncmd + 1
    /\ mcu_pwm' = <<>>
    /\ IF SetTempOutOfRange(degrees)
       THEN /\ op' = Op("set_temp", <<degrees>>, "command_error", <<>>)
            /\ UNCHANGED <<target_temp, set_target, is_shutdown>>
       ELSE /\ target_temp' = degrees
            /\ set_target' = <<degrees>>
            /\ is_shutdown' = FALSE
            /\ op' = Op("set_temp", <<degrees>>, "ok", <<>>)
    /\ UNCHANGED <<periph, threads, pmgr, config, smooth_time, inv_smooth_time,
                   last_temp, smoothed_temp, last_temp_time, next_pwm_time,
                   last_pwm_value, can_extrude, control, mcu_last, pwm_calls>>

set_temp(degrees) ==
    /\ ncmd < MaxCommands
    /\ ncmd' = ncmd + 1
    /\ mcu_pwm' = <<>>
    /\ IF SetTempOutOfRange(degrees)
       THEN /\ op' = Op("set_temp", <<degrees>>, "command_error", <<>>)
            /\ UNCHANGED <<target_temp, set_target>>
       ELSE /\ target_temp' = degrees
            /\ set_target' = <<degrees>>
            /\ op' = Op("set_temp", <<degrees>>, "ok", <<>>)
    /\ UNCHANGED <<periph, threads, pmgr, config, smooth_time, inv_smooth_time,
                   is_shutdown, last_temp, smoothed_temp, last_temp_time,
                   next_pwm_time, last_pwm_value, can_extrude, control,
                   mcu_last, pwm_calls>>

\* A caller of Heater.get_temp(eventtime); the estimated print time lies
\* around the staleness threshold of the latest sample.
GetTemp(est) ==
    /\ op' = Op("get_temp", <<est>>, "ok", get_temp(est))
    /\ mcu_pwm' = <<>>
    /\ UNCHANGED <<periph, threads, pmgr, config, hstate, mcu_last, pwm_calls,
                   set_target, ncmd>>

\* Mutant: the target is reset whatever keep_target says.
set_control_drops_target(c, keep_target) ==
    [control |-> c, target_temp |-> 0, ret |-> control]

\* Heater.set_control(control, keep_target): the fields it assigns and the
\* algorithm it returns.
set_control(c, keep_target) ==
    [control |-> c,
     target_temp |-> IF keep_target THEN target_temp ELSE 0,
     ret |-> control]

\* A caller that builds an algorithm with lookup_control and installs it
\* with set_control (load_profile, lines 549-550).
SetControl(profile, load_clean, keep_target, est) ==
    LET lc == lookup_control(profile, load_clean, est)
        sc == set_control(lc.control, keep_target)
    IN  /\ ncmd < MaxCommands
        /\ ncmd' = ncmd + 1
        /\ inv_smooth_time' = lc.inv_smooth_time
        /\ control' = sc.control
        /\ target_temp' = sc.target_temp
        /\ set_target' = IF keep_target THEN set_target ELSE NoTarget
        /\ mcu_pwm' = <<>>
        /\ op' = Op("set_control", <<lc.control, keep_target>>, "ok",
                    <<sc.ret>>)
        /\ UNCHANGED <<periph, threads, pmgr, config, smooth_time, is_shutdown,
                       last_temp, smoothed_temp, last_temp_time,
                       next_pwm_time, last_pwm_value, can_extrude, mcu_last,
                       pwm_calls>>

StaleEsts == {last_temp_time + STALE_TIME + k : k \in StaleOffsets}

Next ==
    \/ \E temp \in Temps : temperature_callback(temp)
    \/ handle_shutdown
    \/ \E degrees \in Degrees : set_temp(degrees)
    \/ \E est \in StaleEsts : GetTemp(est)
    \/ \E profile \in Profiles, load_clean \in BOOLEAN,
          keep_target \in BOOLEAN, est \in StaleEsts :
          SetControl(profile, load_clean, keep_target, est)

Spec == Init /\ [][Next]_vars

\* The heater with the 6 s sensor and the PID profile,
\* where the re-issue deadline falls within the samples of a run; sensor
\* samples keep arriving (the premise of the liveness claims).
FairInit ==
    /\ Init
    /\ pwm_delay = 24
    /\ control.profile = PidProfile

\* The targets set_temp accepts: off and on.
FairDegrees == {0, 200}

\* The operations that assign Heater fields (get_temp only reads them).
FairNext ==
    \/ \E temp \in Temps : temperature_callback(temp)
    \/ handle_shutdown
    \/ \E degrees \in FairDegrees : set_temp(degrees)
    \/ \E profile \in Profiles, load_clean \in BOOLEAN,
          keep_target \in BOOLEAN :
          SetControl(profile, load_clean, keep_target,
                     last_temp_time + STALE_TIME)

FairSpec ==
    /\ FairInit
    /\ [][FairNext]_vars
    /\ WF_vars(\E temp \in Temps : temperature_callback(temp))

\* ------------------------------------------- the bang-bang heater on its own
\* A heater with min_temp 0, max_set_temp 280, max_temp 300 and a 0.75 s
\* sensor, controlled by ControlBangBang.
BangConfig == <<0, 280, 300, 100, 3>>
\* Sample temperatures at and around target -/+ max_delta for target 200.
BangTemps == {195, 198, 199, 202, 205}
BangDegrees == {0, 200}

BangInit ==
    \E profile \in {WatermarkProfile, WideWatermarkProfile} :
        /\ HeaterInit(BangConfig, profile)
        /\ ProfileManagerIdle

BangNext ==
    \/ \E temp \in BangTemps : temperature_callback(temp)
    \/ \E degrees \in BangDegrees : set_temp(degrees)

BangSpec == BangInit /\ [][BangNext]_vars

\* The same heater heated to 250 degrees: the target is set, then the sensor
\* delivers a non-decreasing sequence of samples from 20 to 250 degrees.
RisingTemps == {20, 100, 247, 248, 249, 250}
RisingTarget == 250

rising_callback(temp) ==
    /\ target_temp = RisingTarget
    /\ temp >= last_temp
    /\ temperature_callback(temp)

RisingInit ==
    /\ HeaterInit(BangConfig, WatermarkProfile)
    /\ ProfileManagerIdle

RisingNext ==
    \/ set_temp(RisingTarget)
    \/ \E temp \in RisingTemps : rising_callback(temp)

RisingSpec == RisingInit /\ [][RisingNext]_vars

\* ------------------------------------------------- the PID heater on its own
\* The same heater controlled by ControlPID; the samples swing from well
\* below to well above the target of 200 degrees.
PidTemps == {140, 150, 175, 250, 260}

PidInit ==
    /\ HeaterInit(BangConfig, PidTunedProfile)
    /\ ProfileManagerIdle

PidNext ==
    \/ \E temp \in PidTemps : temperature_callback(temp)
    \/ \E degrees \in BangDegrees : set_temp(degrees)

PidSpec == PidInit /\ [][PidNext]_vars

\* ------------------------------------------------------ PID_PROFILE commands
\* The estimated print time when an algorithm is constructed: the latest
\* sample is just not stale.
LoadEst == last_temp_time + STALE_TIME

\* load_profile with VERBOSE=high (lines 568-584) formats pid_target and
\* pid_tolerance with "%.2f" and "%.4f": a profile without these keys, or
\* with None under them, raises after the algorithm has been installed.
LoadReportFails(profile) ==
    \/ "pid_target" \notin DOMAIN profile
    \/ profile.pid_target = <<>>
    \/ profile.pid_tolerance = <<>>

\* The fields every PID_PROFILE command leaves alone.
ProfileFrame ==
    UNCHANGED <<periph, config, smooth_time, is_shutdown, last_temp,
                smoothed_temp, last_temp_time, next_pwm_time, last_pwm_value,
                can_extrude, mcu_last, pwm_calls, incompatible_profiles,
                threads>>

\* load_profile: "profile = self.profiles.get(profile_name, None)" found.
load_found(profile_name, default) == profile_name \in DOMAIN profiles

\* ProfileManager.load_profile(profile_name, gcmd) with the gcmd parameters
\* DEFAULT (<<>> when absent), KEEP_TARGET, LOAD_CLEAN and VERBOSE.
load_profile(profile_name, default, keep_target, load_clean, verbose) ==
    LET args == <<profile_name, default, keep_target, load_clean, verbose>>
        found == load_found(profile_name, default)
        id == IF found THEN profiles[profile_name] ELSE profiles[default[1]]
        lc == lookup_control(heap[id], load_clean, LoadEst)
        sc == set_control(lc.control, keep_target)
    IN  /\ ncmd < MaxProfileCommands
        /\ ncmd' = ncmd + 1
        /\ mcu_pwm' = <<>>
        /\ IF profile_name = control.profile.name /\ ~load_clean
           THEN /\ op' = Op("load_profile", args, "already_loaded", <<>>)
                /\ UNCHANGED <<inv_smooth_time, control, target_temp,
                               set_target, live>>
           ELSE IF ~found /\ default = <<>>
           THEN /\ op' = Op("load_profile", args, "unknown_profile", <<>>)
                /\ UNCHANGED <<inv_smooth_time, control, target_temp,
                               set_target, live>>
           ELSE IF ~found /\ default[1] \notin DOMAIN profiles
           THEN /\ op' = Op("load_profile", args, "unknown_default", <<>>)
                /\ UNCHANGED <<inv_smooth_time, control, target_temp,
                               set_target, live>>
           ELSE /\ inv_smooth_time' = lc.inv_smooth_time
                /\ control' = sc.control
                /\ target_temp' = sc.target_temp
                /\ set_target' = IF keep_target THEN set_target ELSE NoTarget
                /\ live' = id
                /\ op' = Op("load_profile", args,
                            IF verbose = "high" /\ LoadReportFails(heap[id])
                            THEN "format_error" ELSE "ok",
                            <<>>)
        /\ ProfileFrame
        /\ UNCHANGED <<heap, profiles, configfile>>

\* The number of options save_profile writes before temp_profile[key]
\* raises KeyError (all of them when every key is there).
SavedCount(profile) ==
    LET missing == {i \in DOMAIN PID_PROFILE_OPTIONS :
                       PID_PROFILE_OPTIONS[i] \notin DOMAIN profile}
    IN  IF missing = {} THEN Len(PID_PROFILE_OPTIONS)
        ELSE (CHOOSE i \in missing : \A j \in missing : i <= j) - 1

\* Mutant: an entry that exists under the name is kept (setdefault).
save_entry_keeps_existing(profile_name, dict_id) ==
    IF profile_name \in DOMAIN profiles THEN profiles[profile_name]
    ELSE dict_id

\* save_profile: "self.profiles[profile_name] = temp_profile", the dict the
\* name maps to afterwards.
save_entry(profile_name, dict_id) == dict_id

\* ProfileManager.save_profile(profile_name) on the dict dict_id: the
\* staged config file, the heap and the profiles map after the call, and
\* whether it returned.
save_profile(profile_name, dict_id, hp) ==
    LET temp_profile == hp[dict_id]
        section == compute_section_name(profile_name)
        versioned == configfile_set(configfile, section, "pid_version",
                                    <<PID_PROFILE_VERSION>>)
        n == SavedCount(temp_profile)
        saved == n = Len(PID_PROFILE_OPTIONS)
    IN  [ok |-> saved,
         configfile |-> save_options(versioned, section, temp_profile, n),
         heap |-> IF saved
                  THEN [hp EXCEPT ![dict_id] =
                           [k \in DOMAIN temp_profile \cup {"name"} |->
                               IF k = "name" THEN profile_name
                               ELSE temp_profile[k]]]
                  ELSE hp,
         profiles |-> IF saved
                      THEN [nm \in DOMAIN profiles \cup {profile_name} |->
                               IF nm = profile_name
                               THEN save_entry(profile_name, dict_id)
                               ELSE profiles[nm]]
                      ELSE profiles]

\* PID_PROFILE SAVE=profile_name.  The dict of the active algorithm is
\* stored under the name and renamed to it; op.ret keeps the dict as it was
\* when the command was issued.
SaveProfile(profile_name) ==
    LET sv == save_profile(profile_name, live, heap)
    IN  /\ ncmd < MaxProfileCommands
        /\ ncmd' = ncmd + 1
        /\ mcu_pwm' = <<>>
        /\ configfile' = sv.configfile
        /\ heap' = sv.heap
        /\ profiles' = sv.profiles
        /\ control' = [control EXCEPT !.profile = sv.heap[live]]
        /\ op' = Op("save_profile", <<profile_name>>,
                    IF sv.ok THEN "ok" ELSE "key_error", <<heap[live]>>)
        /\ ProfileFrame
        /\ UNCHANGED <<inv_smooth_time, target_temp, set_target, live>>

\* ProfileManager.set_values(profile_name, gcmd): a holds the gcmd
\* parameters TARGET, TOLERANCE, CONTROL, KP, KI, KD and SMOOTH_TIME (<<>>
\* when absent), KEEP_TARGET and LOAD_CLEAN.  The checks run in the order
\* of the code; the new dict is installed first and saved afterwards.
set_values(profile_name, a) ==
    LET current_profile == heap[live]
        tolerance == IF a.TOLERANCE # <<>> THEN a.TOLERANCE
                     ELSE current_profile.pid_tolerance
        kind == IF a.CONTROL # <<>> THEN a.CONTROL[1]
                ELSE current_profile.control
        temp_profile == [name |-> profile_name,
                         pid_target |-> a.TARGET,
                         pid_tolerance |-> tolerance,
                         control |-> kind,
                         smooth_time |-> a.SMOOTH_TIME,
                         pid_kp |-> a.KP[1], pid_ki |-> a.KI[1],
                         pid_kd |-> a.KD[1]]
        lc == lookup_control(temp_profile, a.LOAD_CLEAN, LoadEst)
        sc == set_control(lc.control, a.KEEP_TARGET)
        id == Len(heap) + 1
        sv == save_profile(profile_name, id, Append(heap, temp_profile))
        failure ==
            IF a.TARGET = <<>> THEN "gcode_error"
            ELSE IF "pid_tolerance" \notin DOMAIN current_profile
            THEN "key_error"
            ELSE IF tolerance = <<>> THEN "gcode_error"
            ELSE IF a.KP = <<>> \/ a.KI = <<>> \/ a.KD = <<>>
            THEN "gcode_error"
            ELSE IF kind \notin {"pid", "pid_v"} THEN "key_error"
            ELSE "ok"
    IN  /\ ncmd < MaxProfileCommands
        /\ ncmd' = ncmd + 1
        /\ mcu_pwm' = <<>>
        /\ op' = Op("set_values", <<profile_name, a>>, failure, <<>>)
        /\ IF failure # "ok"
           THEN UNCHANGED <<inv_smooth_time, control, target_temp,
                            set_target, live, heap, profiles, configfile>>
           ELSE /\ inv_smooth_time' = lc.inv_smooth_time
                /\ control' = sc.control
                /\ target_temp' = sc.target_temp
                /\ set_target' = IF a.KEEP_TARGET THEN set_target
                                 ELSE NoTarget
                /\ live' = id
                /\ heap' = sv.heap
                /\ profiles' = sv.profiles
                /\ configfile' = sv.configfile
        /\ ProfileFrame

\* Mutant: the section stays in the config file.
remove_section_keeps(cf, section) == cf

\* configfile.remove_section(section) on the staged sections cf.
remove_section(cf, section) ==
    [sec \in DOMAIN cf \ {section} |-> cf[sec]]

\* ProfileManager.remove_profile(profile_name)
remove_profile(profile_name) ==
    /\ ncmd < MaxProfileCommands
    /\ ncmd' = ncmd + 1
    /\ mcu_pwm' = <<>>
    /\ IF profile_name \in DOMAIN profiles
       THEN /\ configfile' =
                  remove_section(configfile,
                                 compute_section_name(profile_name))
            /\ profiles' = [nm \in DOMAIN profiles \ {profile_name} |->
                               profiles[nm]]
            /\ op' = Op("remove_profile", <<profile_name>>, "removed", <<>>)
       ELSE /\ UNCHANGED <<configfile, profiles>>
            /\ op' = Op("remove_profile", <<profile_name>>, "not_found",
                        <<>>)
    /\ ProfileFrame
    /\ UNCHANGED <<inv_smooth_time, control, target_temp, set_target, live,
                   heap>>

\* --------------------------------------------------------- ProfileSpec
\* A heater whose config file holds two stored profiles next to its own
\* section: "p1", written by the current version, and "old", written by an
\* earlier one.
StoredP1 ==
    [pid_version |-> 1,
     profile |-> [name |-> "p1", control |-> "pid_v",
                  pid_kp |-> 12, pid_ki |-> 2, pid_kd |-> 3,
                  smooth_time |-> <<8>>, pid_target |-> <<210>>,
                  pid_tolerance |-> <<2>>]]

StoredOld ==
    [pid_version |-> 0,
     profile |-> [name |-> "old", control |-> "pid",
                  pid_kp |-> 30, pid_ki |-> 3, pid_kd |-> 5,
                  smooth_time |-> <<>>, pid_target |-> <<180>>,
                  pid_tolerance |-> <<2>>]]

StoredProfiles == <<StoredP1, StoredOld>>
DefaultProfiles == {WatermarkProfile, PidTunedProfile}
ProfileNames == {"default", "p1", "old"}
DefaultArgs == {<<>>, <<"default">>, <<"p1">>}
\* VERBOSE only selects the report; high prints (and formats) the most.
VerboseArgs == {"high"}
ProfileTemps == {150}
ProfileDegrees == {200}

\* The parameters of PID_PROFILE SET_VALUES: a complete set, one without
\* TARGET, one that leaves TOLERANCE and CONTROL to the active profile, and
\* one without KD.
SetValuesArgs ==
    {[TARGET |-> <<220>>, TOLERANCE |-> <<1>>, CONTROL |-> <<"pid">>,
      KP |-> <<10>>, KI |-> <<1>>, KD |-> <<4>>, SMOOTH_TIME |-> <<>>,
      KEEP_TARGET |-> TRUE, LOAD_CLEAN |-> FALSE],
     [TARGET |-> <<>>, TOLERANCE |-> <<1>>, CONTROL |-> <<"pid">>,
      KP |-> <<10>>, KI |-> <<1>>, KD |-> <<4>>, SMOOTH_TIME |-> <<>>,
      KEEP_TARGET |-> TRUE, LOAD_CLEAN |-> FALSE],
     [TARGET |-> <<220>>, TOLERANCE |-> <<>>, CONTROL |-> <<>>,
      KP |-> <<10>>, KI |-> <<1>>, KD |-> <<4>>, SMOOTH_TIME |-> <<4>>,
      KEEP_TARGET |-> FALSE, LOAD_CLEAN |-> TRUE],
     [TARGET |-> <<220>>, TOLERANCE |-> <<1>>, CONTROL |-> <<"pid">>,
      KP |-> <<10>>, KI |-> <<1>>, KD |-> <<>>, SMOOTH_TIME |-> <<>>,
      KEEP_TARGET |-> FALSE, LOAD_CLEAN |-> FALSE]}

\* The sensor callback, for the first samples of a run.
profile_callback(temp) ==
    /\ last_temp_time < MaxProfileSamples * pwm_delay
    /\ temperature_callback(temp)

ProfileInit ==
    \E profile \in DefaultProfiles :
        /\ HeaterInit(BangConfig, profile)
        /\ ProfileManagerInit(StoredProfiles, profile)

ProfileNext ==
    \/ \E temp \in ProfileTemps : profile_callback(temp)
    \/ \E degrees \in ProfileDegrees : set_temp(degrees)
    \/ \E profile_name \in ProfileNames, default \in DefaultArgs,
          keep_target \in BOOLEAN, load_clean \in BOOLEAN,
          verbose \in VerboseArgs :
          load_profile(profile_name, default, keep_target, load_clean,
                       verbose)
    \/ \E profile_name \in ProfileNames : SaveProfile(profile_name)
    \/ \E profile_name \in ProfileNames, a \in SetValuesArgs :
          set_values(profile_name, a)
    \/ \E profile_name \in ProfileNames : remove_profile(profile_name)

ProfileSpec == ProfileInit /\ [][ProfileNext]_vars

\* The active algorithm's profile is the dict the manager holds as live.
LiveIsActive == control.profile = heap[live]

\* ------------------------------------------------------------- LockSpec
\* The sensor thread and the command thread, step by step.  An operation
\* whose body is "with self.lock:" runs in one step when the lock is free;
\* temperature_callback holds the lock over two steps, and the operations
\* without "with self.lock:" run whoever holds the lock.
LockTemps == {150, 199}
LockDegrees == {0, 200}
AlterTargets == {0, 200, 290}
LockSmoothTimes == {4, 16}
LockProfile == PidVProfile

\* The accesses made without the lock after context ctx touched field.
Access(ctx, field, write) ==
    IF lock = ctx THEN unlocked
    ELSE unlocked \cup {[ctx |-> ctx, field |-> field, write |-> write]}

\* temperature_callback, lines 145-149 up to the call of
\* control.temperature_update: the lock is taken, the sample is stored and
\* target_temp is read for the call.
callback_enter(temp) ==
    LET read_time == last_temp_time + pwm_delay
    IN  /\ lock = "free"
        /\ sensor_pc = <<>>
        /\ read_time <= MaxSamples * pwm_delay
        /\ lock' = "sensor"
        /\ sensor_pc' = << [read_time |-> read_time,
                            time_diff |-> read_time - last_temp_time,
                            temp |-> temp, target_temp |-> target_temp] >>
        /\ last_temp' = temp
        /\ last_temp_time' = read_time
        /\ mcu_pwm' = <<>>
        /\ op' = Op("callback_enter", <<read_time, temp>>, "ok", <<>>)
        /\ UNCHANGED <<periph, pmgr, config, smooth_time, inv_smooth_time,
                       is_shutdown, smoothed_temp, target_temp,
                       next_pwm_time, last_pwm_value, can_extrude, control,
                       mcu_last, pwm_calls, set_target, ncmd, cmd_pc,
                       unlocked>>

\* temperature_callback, the body of control.temperature_update with its
\* set_pwm and lines 150-154: the algorithm and the heater fields are read
\* as they are now, the target is the one passed at the call.
callback_update ==
    LET s == sensor_pc[1]
        u == temperature_update(control, s.read_time, s.temp, s.target_temp)
        w == set_pwm(s.read_time, u.value)
        smoothed == smoothed_temp
                    + Quot((s.temp - smoothed_temp)
                              * Min(s.time_diff, inv_smooth_time),
                           inv_smooth_time)
    IN  /\ sensor_pc # <<>>
        /\ lock' = "free"
        /\ sensor_pc' = <<>>
        /\ control' = u.control
        /\ next_pwm_time' = w.next_pwm_time
        /\ last_pwm_value' = w.last_pwm_value
        /\ mcu_pwm' = w.writes
        /\ mcu_last' = IF w.wrote THEN w.writes ELSE mcu_last
        /\ smoothed_temp' = smoothed
        /\ can_extrude' = (smoothed >= min_extrude_temp)
        /\ pwm_calls' = LastTwo(Append(pwm_calls,
                            [read_time |-> s.read_time, value |-> u.value,
                             forced |-> PwmForcedOff, wrote |-> w.wrote]))
        /\ op' = Op("temperature_callback", <<s.read_time, s.temp>>, "ok",
                    <<s.target_temp>>)
        /\ UNCHANGED <<periph, pmgr, config, smooth_time, inv_smooth_time,
                       is_shutdown, last_temp, last_temp_time, target_temp,
                       set_target, ncmd, cmd_pc, unlocked>>

\* Heater.set_temp from the command thread: it waits for the lock.
locked_set_temp(degrees) ==
    /\ lock = "free"
    /\ set_temp(degrees)

\* Heater.alter_target(target_temp)
alter_target(target) ==
    /\ ncmd < MaxCommands
    /\ ncmd' = ncmd + 1
    /\ target_temp' = IF target # 0
                      THEN Max(min_temp, Min(max_temp, target))
                      ELSE target
    /\ set_target' = NoTarget
    /\ unlocked' = Access("command", "target_temp", TRUE)
    /\ mcu_pwm' = <<>>
    /\ op' = Op("alter_target", <<target>>, "ok", <<>>)
    /\ UNCHANGED <<periph, pmgr, config, smooth_time, inv_smooth_time,
                   is_shutdown, last_temp, smoothed_temp, last_temp_time,
                   next_pwm_time, last_pwm_value, can_extrude, control,
                   mcu_last, pwm_calls, lock, sensor_pc, cmd_pc>>

\* control.update_smooth_time() once heater.smooth_time is st, by kind.
update_smooth_time(c, st) ==
    CASE c.kind = "watermark" -> c
      [] c.kind = "pid" -> [c EXCEPT !.smooth = st + c.dt]
      [] c.kind = "pid_v" -> [c EXCEPT !.smooth_time = st]

\* Heater.cmd_SET_SMOOTH_TIME with SMOOTH_TIME=st and SAVE_TO_PROFILE=0
cmd_SET_SMOOTH_TIME(st) ==
    /\ ncmd < MaxCommands
    /\ ncmd' = ncmd + 1
    /\ smooth_time' = st
    /\ inv_smooth_time' = st
    /\ control' = update_smooth_time(control, st)
    /\ mcu_pwm' = <<>>
    /\ op' = Op("SET_SMOOTH_TIME", <<st>>, "ok", <<>>)
    /\ UNCHANGED <<periph, pmgr, config, is_shutdown, last_temp, smoothed_temp,
                   target_temp, last_temp_time, next_pwm_time,
                   last_pwm_value, can_extrude, mcu_last, pwm_calls,
                   set_target, threads>>

\* ControlVelocityPID.__init__ with load_clean false, lines 750-766: the
\* start temperature comes from heater.get_temp, which takes the lock.
construct_begin(profile) ==
    /\ lock = "free"
    /\ cmd_pc = <<>>
    /\ ncmd < MaxCommands
    /\ ncmd' = ncmd + 1
    /\ inv_smooth_time' = ProfileSmoothTime(profile)
    /\ cmd_pc' = << [profile |-> profile, temp |-> get_temp(LoadEst)[1]] >>
    /\ mcu_pwm' = <<>>
    /\ op' = Op("construct_begin", <<profile>>, "ok", <<>>)
    /\ UNCHANGED <<periph, pmgr, config, smooth_time, is_shutdown, last_temp,
                   smoothed_temp, target_temp, last_temp_time,
                   next_pwm_time, last_pwm_value, can_extrude, control,
                   mcu_last, pwm_calls, set_target, lock, sensor_pc,
                   unlocked>>

\* ControlVelocityPID.__init__, line 770: heater.last_pwm_value is read
\* for self.pwm; then set_control installs the algorithm once the lock is
\* free (load_profile, line 550, with KEEP_TARGET=1).
construct_read_pwm ==
    /\ cmd_pc # <<>>
    /\ "pwm" \notin DOMAIN cmd_pc[1]
    /\ cmd_pc' = << [profile |-> cmd_pc[1].profile, temp |-> cmd_pc[1].temp,
                     pwm |-> last_pwm_value] >>
    /\ unlocked' = Access("command", "last_pwm_value", FALSE)
    /\ mcu_pwm' = <<>>
    /\ op' = Op("construct_read_pwm", <<>>, "ok", <<last_pwm_value>>)
    /\ UNCHANGED <<periph, pmgr, config, hstate, mcu_last, pwm_calls,
                   set_target, ncmd, lock, sensor_pc>>

construct_install ==
    /\ cmd_pc # <<>>
    /\ "pwm" \in DOMAIN cmd_pc[1]
    /\ lock = "free"
    /\ LET built == [ControlVelocityPID(cmd_pc[1].profile, TRUE, 0)
                       EXCEPT !.temps = <<cmd_pc[1].temp, cmd_pc[1].temp,
                                          cmd_pc[1].temp>>,
                              !.pwm = cmd_pc[1].pwm]
           sc == set_control(built, TRUE)
       IN  /\ control' = sc.control
           /\ target_temp' = sc.target_temp
           /\ op' = Op("set_control", <<built, TRUE>>, "ok", <<sc.ret>>)
    /\ cmd_pc' = <<>>
    /\ mcu_pwm' = <<>>
    /\ UNCHANGED <<periph, pmgr, config, smooth_time, inv_smooth_time,
                   is_shutdown, last_temp, smoothed_temp, last_temp_time,
                   next_pwm_time, last_pwm_value, can_extrude, mcu_last,
                   pwm_calls, set_target, ncmd, lock, sensor_pc, unlocked>>

\* Mutant: set_control does not wait for the lock.
set_control_without_lock(profile, keep_target) ==
    /\ cmd_pc = <<>>
    /\ SetControl(profile, TRUE, keep_target, 0)

\* Heater.set_control from the command thread, called by load_profile with
\* an algorithm built with load_clean (its constructor reads nothing of
\* the heater): "with self.lock:" waits for the lock, then the algorithm
\* and the target are assigned in the same critical section.
locked_set_control(profile, keep_target) ==
    /\ lock = "free"
    /\ cmd_pc = <<>>
    /\ SetControl(profile, TRUE, keep_target, 0)

LockInit ==
    /\ HeaterInit(BangConfig, PidTunedProfile)
    /\ ProfileManagerIdle

LockNext ==
    \/ \E temp \in LockTemps : callback_enter(temp)
    \/ callback_update
    \/ \E degrees \in LockDegrees : locked_set_temp(degrees)
    \/ \E target \in AlterTargets : alter_target(target)
    \/ \E st \in LockSmoothTimes : cmd_SET_SMOOTH_TIME(st)
    \/ construct_begin(LockProfile)
    \/ construct_read_pwm
    \/ construct_install
    \/ locked_set_control(WatermarkProfile, FALSE)

LockSpec == LockInit /\ [][LockNext]_vars

\* ----------------------------------------------------------- PrinterHeaters
\* A section name of the config file is kept as the sequence of its words;
\* setup_heater names the heater by the last one.  The sections that set up
\* a heater: the extruder (the Heater of this module's variables), the bed,
\* a second section whose last word is "extruder", a chamber heater that
\* asks for the gcode id of the bed, and one with an unknown sensor_type.
MainSection == <<"extruder">>

HeaterSections ==
    {<<"extruder">>, <<"heater_bed">>, <<"heater_generic", "extruder">>,
     <<"heater_generic", "chamber">>, <<"heater_generic", "spare">>}

\* The options of a heater section that setup_heater and set_temp use.
SectionConfig(section) ==
    CASE section = <<"extruder">> ->
            [min_temp |-> min_temp, max_set_temp |-> max_set_temp,
             kind |-> control.kind, sensor_type |-> "Generic 3950",
             gcode_id |-> <<"T0">>]
      [] section = <<"heater_bed">> ->
            [min_temp |-> 10, max_set_temp |-> 120, kind |-> "pid",
             sensor_type |-> "Generic 3950", gcode_id |-> <<"B">>]
      [] section = <<"heater_generic", "extruder">> ->
            [min_temp |-> 0, max_set_temp |-> 100, kind |-> "watermark",
             sensor_type |-> "Generic 3950", gcode_id |-> <<>>]
      [] section = <<"heater_generic", "chamber">> ->
            [min_temp |-> 5, max_set_temp |-> 80, kind |-> "pid_v",
             sensor_type |-> "Generic 3950", gcode_id |-> <<"B">>]
      [] OTHER ->
            [min_temp |-> 0, max_set_temp |-> 100, kind |-> "watermark",
             sensor_type |-> "none", gcode_id |-> <<>>]

\* The sensor types a factory was added for (add_sensor_factory).
sensor_factories == {"Generic 3950"}

\* Heater.__init__ for a Heater other than the one of the variables.
Heater(conf) ==
    [min_temp |-> conf.min_temp, max_set_temp |-> conf.max_set_temp,
     kind |-> conf.kind, target_temp |-> 0, enabled |-> TRUE]

\* The keys of the dict self.heaters, which is kept in insertion order.
HeaterNames == {pheaters.heaters[i].name : i \in DOMAIN pheaters.heaters}

\* lookup_heater(heater_name): the Heater object registered under the name.
lookup_heater(heater_name) ==
    LET i == CHOOSE j \in DOMAIN pheaters.heaters :
                 pheaters.heaters[j].name = heater_name
    IN  pheaters.heaters[i].obj

\* Mutant: the registry is asked for the section, not for the heater name.
HeaterRegisteredBySection(section) ==
    \E i \in DOMAIN pheaters.available_heaters :
        pheaters.available_heaters[i] = section

\* The test of line 872.
HeaterRegistered(section) == section[Len(section)] \in HeaterNames

\* self.heaters[heater_name] = heater.
heaters_set(hs, heater_name, obj) ==
    IF \E i \in DOMAIN hs : hs[i].name = heater_name
    THEN [i \in DOMAIN hs |->
             IF hs[i].name = heater_name
             THEN [name |-> heater_name, obj |-> obj] ELSE hs[i]]
    ELSE Append(hs, [name |-> heater_name, obj |-> obj])

\* PrinterHeaters.setup_heater(config, gcode_id), with setup_sensor and
\* register_sensor.  The Heater of the extruder section is object 0.
setup_heater(section) ==
    LET conf == SectionConfig(section)
        heater_name == section[Len(section)]
        obj == IF section = MainSection THEN 0 ELSE Len(pheaters.objs) + 1
        created ==
            [pheaters EXCEPT
                !.heaters = heaters_set(@, heater_name, obj),
                !.objs = IF obj = 0 THEN @ ELSE Append(@, Heater(conf)),
                !.available_sensors = Append(@, section)]
    IN  /\ ncmd' = ncmd + 1
        /\ pheaters.waiting = <<>>
        /\ mcu_pwm' = <<>>
        /\ IF HeaterRegistered(section)
           THEN /\ op' = Op("setup_heater", <<section>>,
                            "already_registered", <<>>)
                /\ UNCHANGED pheaters
           ELSE IF conf.sensor_type \notin sensor_factories
           THEN /\ op' = Op("setup_heater", <<section>>,
                            "unknown_sensor", <<>>)
                /\ UNCHANGED pheaters
           ELSE IF conf.gcode_id = <<>>
           THEN /\ op' = Op("setup_heater", <<section>>, "ok", <<obj>>)
                /\ pheaters' =
                      [created EXCEPT
                          !.available_heaters = Append(@, section)]
           ELSE IF conf.gcode_id[1] \in DOMAIN pheaters.gcode_id_to_sensor
           THEN /\ op' = Op("setup_heater", <<section>>,
                            "gcode_id_registered", <<>>)
                /\ pheaters' = created
           ELSE /\ op' = Op("setup_heater", <<section>>, "ok", <<obj>>)
                /\ pheaters' =
                      [created EXCEPT
                          !.gcode_id_to_sensor =
                              (conf.gcode_id[1] :> obj) @@ @,
                          !.available_heaters = Append(@, section)]
        /\ UNCHANGED runout_helper
        /\ UNCHANGED <<tfan, threads, pmgr, config, hstate, mcu_last,
                       pwm_calls, set_target>>

\* Heater.set_enabled(enabled) of a registered heater other than object 0,
\* which is always enabled here.
set_enabled(heater_name, enabled) ==
    /\ ncmd' = ncmd + 1
    /\ pheaters.waiting = <<>>
    /\ heater_name \in HeaterNames
    /\ lookup_heater(heater_name) # 0
    /\ pheaters' = [pheaters EXCEPT
                       !.objs[lookup_heater(heater_name)].enabled = enabled]
    /\ mcu_pwm' = <<>>
    /\ op' = Op("set_enabled", <<heater_name, enabled>>, "ok", <<>>)
    /\ UNCHANGED runout_helper
    /\ UNCHANGED <<tfan, threads, pmgr, config, hstate, mcu_last, pwm_calls,
                   set_target>>

\* Mutant: a target of 0 is checked against the range like any other.
ObjOutOfRangeZeroChecked(h, degrees) ==
    degrees < h.min_temp \/ degrees > h.max_set_temp

\* The range check of Heater.set_temp (line 177) for a Heater object.
ObjOutOfRange(h, degrees) ==
    degrees # 0 /\ (degrees < h.min_temp \/ degrees > h.max_set_temp)

\* heater.enabled for a Heater object.
ObjEnabled(obj) == IF obj = 0 THEN TRUE ELSE pheaters.objs[obj].enabled

\* heater.target_temp for a Heater object.
ObjTarget(obj) ==
    IF obj = 0 THEN target_temp ELSE pheaters.objs[obj].target_temp

\* The loop of turn_off_all_heaters from entry i of self.heaters on.  s has
\* the Heater objects, the target_temp of object 0, the lock events so far
\* ("with self.lock" of set_temp, each with the heater's target_temp at
\* that moment) and whether no set_temp has raised.
RECURSIVE turn_off_loop(_, _)
turn_off_loop(s, i) ==
    IF i > Len(pheaters.heaters) \/ ~s.ok
    THEN s
    ELSE LET obj == pheaters.heaters[i].obj
             raises == IF obj = 0 THEN SetTempOutOfRange(0)
                       ELSE ObjOutOfRange(s.objs[obj], 0)
             before == IF obj = 0 THEN target_temp
                       ELSE s.objs[obj].target_temp
             locked == s.locks
                       \o << [lock |-> obj, ev |-> "acquire",
                              target |-> before],
                             [lock |-> obj, ev |-> "release", target |-> 0] >>
         IN  turn_off_loop(
                 IF raises
                 THEN [s EXCEPT !.ok = FALSE]
                 ELSE IF obj = 0
                 THEN [s EXCEPT !.target = <<0>>, !.locks = locked]
                 ELSE [s EXCEPT !.objs[obj].target_temp = 0,
                                !.locks = locked],
                 i + 1)

\* PrinterHeaters.turn_off_all_heaters (TURN_OFF_HEATERS and the
\* "gcode:request_restart" event).  op.ret has the lock events.
turn_off_all_heaters ==
    LET s == turn_off_loop([objs |-> pheaters.objs, target |-> <<>>,
                            locks |-> <<>>, ok |-> TRUE], 1)
    IN  /\ ncmd' = ncmd + 1
        /\ pheaters.waiting = <<>>
        /\ pheaters' = [pheaters EXCEPT !.objs = s.objs]
        /\ target_temp' = IF s.target = <<>> THEN target_temp ELSE 0
        /\ set_target' = IF s.target = <<>> THEN set_target ELSE <<0>>
        /\ mcu_pwm' = <<>>
        /\ op' = Op("turn_off_all_heaters", <<>>,
                    IF s.ok THEN "ok" ELSE "command_error", s.locks)
        /\ UNCHANGED <<tfan, runout_helper, threads, pmgr, config, smooth_time,
                       inv_smooth_time, is_shutdown, last_temp, smoothed_temp,
                       last_temp_time, next_pwm_time, last_pwm_value,
                       can_extrude, control, mcu_last, pwm_calls>>

\* ----------------------------------------------------------- blocking waits
PID_SETTLE_DELTA == 1
\* PID_SETTLE_SLOPE = .1, in units of 1/DER_SCALE
PID_SETTLE_SLOPE == 1

\* Mutant: the PID algorithms are settled once the slope is small.
check_busy_slope_only ==
    CASE control.kind = "watermark" ->
            smoothed_temp < target_temp - control.max_delta
      [] control.kind = "pid" -> Abs(control.prev_der) > PID_SETTLE_SLOPE
      [] control.kind = "pid_v" -> Abs(control.d1) > PID_SETTLE_SLOPE

\* Heater.check_busy(eventtime) of object 0: control.check_busy(eventtime,
\* smoothed_temp, target_temp) of the active algorithm.
check_busy ==
    CASE control.kind = "watermark" ->
            smoothed_temp < target_temp - control.max_delta
      [] control.kind = "pid" ->
            \/ Abs(target_temp - smoothed_temp) > PID_SETTLE_DELTA
            \/ Abs(control.prev_der) > PID_SETTLE_SLOPE
      [] control.kind = "pid_v" ->
            \/ Abs(target_temp - smoothed_temp) > PID_SETTLE_DELTA
            \/ Abs(control.d1) > PID_SETTLE_SLOPE

\* The command blocked in a wait loop: which loop, the range it waits for
\* (MINIMUM and MAXIMUM, <<>> when not given), and whether it is about to
\* test the loop condition ("poll") or inside reactor.pause ("sleep").
Waiting(loop, minimum, maximum) ==
    << [loop |-> loop, pc |-> "poll", min |-> minimum, max |-> maximum] >>

\* PrinterHeaters.set_temperature(heater, temp, wait) up to the loop of
\* _wait_for_temperature; debugoutput is the start argument of that name.
\* Only object 0 has the temperatures a wait looks at.
set_temperature(heater_name, temp, wait, debugoutput) ==
    /\ ncmd' = ncmd + 1
    /\ pheaters.waiting = <<>>
    /\ heater_name \in HeaterNames
    /\ LET obj == lookup_heater(heater_name)
       IN  /\ wait => obj = 0
           /\ IF ~ObjEnabled(obj)
              THEN /\ op' = Op("set_temperature", <<heater_name, temp, wait>>,
                               "disabled", <<>>)
                   /\ UNCHANGED <<pheaters, target_temp, set_target>>
              ELSE IF \/ (obj = 0 /\ SetTempOutOfRange(temp))
                      \/ (obj # 0
                          /\ ObjOutOfRange(pheaters.objs[obj], temp))
              THEN /\ op' = Op("set_temperature", <<heater_name, temp, wait>>,
                               "command_error", <<>>)
                   /\ UNCHANGED <<pheaters, target_temp, set_target>>
              ELSE /\ op' = Op("set_temperature", <<heater_name, temp, wait>>,
                               "ok", <<>>)
                   /\ target_temp' = IF obj = 0 THEN temp ELSE target_temp
                   /\ set_target' = IF obj = 0 THEN <<temp>> ELSE set_target
                   /\ pheaters' =
                         [pheaters EXCEPT
                             !.objs =
                                 IF obj = 0 THEN @
                                 ELSE [@ EXCEPT ![obj].target_temp = temp],
                             !.waiting = IF wait /\ temp # 0 /\ ~debugoutput
                                         THEN Waiting("heater", <<>>, <<>>)
                                         ELSE <<>>]
    /\ mcu_pwm' = <<>>
    /\ UNCHANGED runout_helper
    /\ UNCHANGED <<tfan, threads, pmgr, config, smooth_time, inv_smooth_time,
                   is_shutdown, last_temp, smoothed_temp, last_temp_time,
                   next_pwm_time, last_pwm_value, can_extrude, control,
                   mcu_last, pwm_calls>>

\* "temp >= min_temp and temp <= max_temp" with the defaults -inf and inf.
InWaitRange(temp, minimum, maximum) ==
    /\ minimum = <<>> \/ temp >= minimum[1]
    /\ maximum = <<>> \/ temp <= maximum[1]

\* cmd_TEMPERATURE_WAIT up to its loop.  The sensor is named by its section.
cmd_TEMPERATURE_WAIT(sensor_name, minimum, maximum, debugoutput) ==
    LET known == \E i \in DOMAIN pheaters.available_sensors :
                     pheaters.available_sensors[i] = sensor_name
        result ==
            IF ~known THEN "unknown_sensor"
            ELSE IF /\ maximum # <<>> /\ minimum # <<>>
                    /\ maximum[1] <= minimum[1] THEN "gcode_error"
            ELSE IF maximum = <<>> /\ minimum = <<>> THEN "gcode_error"
            ELSE "ok"
    IN  /\ ncmd' = ncmd + 1
        /\ pheaters.waiting = <<>>
        /\ known => /\ Len(sensor_name) = 1
                    /\ sensor_name[1] \in HeaterNames
                    /\ lookup_heater(sensor_name[1]) = 0
        /\ op' = Op("TEMPERATURE_WAIT", <<sensor_name, minimum, maximum>>,
                    result, <<>>)
        /\ pheaters' =
              [pheaters EXCEPT
                  !.waiting = IF result = "ok" /\ ~debugoutput
                              THEN Waiting("sensor", minimum, maximum)
                              ELSE <<>>]
        /\ mcu_pwm' = <<>>
        /\ UNCHANGED runout_helper
        /\ UNCHANGED <<tfan, threads, pmgr, config, hstate, mcu_last,
                       pwm_calls, set_target>>

\* Mutant: the loops do not look at the shutdown state.
wait_over_ignores_shutdown(w, est) ==
    IF w.loop = "heater"
    THEN ~check_busy
    ELSE InWaitRange(get_temp(est)[1], w.min, w.max)

\* Whether the loop of the blocked command ends at this test of its
\* condition (lines 957 and 992-995).
wait_over(w, est) ==
    IF w.loop = "heater"
    THEN pheaters.shutdown \/ ~check_busy
    ELSE pheaters.shutdown \/ InWaitRange(get_temp(est)[1], w.min, w.max)

\* One test of the loop condition: the command returns, or it responds
\* with the temperatures and calls reactor.pause(eventtime + 1.).
wait_poll ==
    /\ pheaters.waiting # <<>>
    /\ pheaters.waiting[1].pc = "poll"
    /\ \E o \in StaleOffsets :
          LET w == pheaters.waiting[1]
              over == wait_over(w, last_temp_time + STALE_TIME + o)
          IN  /\ pheaters' =
                    [pheaters EXCEPT
                        !.waiting = IF over THEN <<>>
                                    ELSE << [w EXCEPT !.pc = "sleep"] >>]
              /\ op' = Op("wait_poll", <<w.loop>>,
                          IF over THEN "returned" ELSE "paused", <<>>)
    /\ mcu_pwm' = <<>>
    /\ UNCHANGED runout_helper
    /\ UNCHANGED <<tfan, threads, pmgr, config, hstate, mcu_last, pwm_calls,
                   set_target, ncmd>>

\* reactor.pause returns in the blocked command.
wait_wake ==
    /\ pheaters.waiting # <<>>
    /\ pheaters.waiting[1].pc = "sleep"
    /\ pheaters' = [pheaters EXCEPT !.waiting[1].pc = "poll"]
    /\ op' = Op("wait_wake", <<pheaters.waiting[1].loop>>, "ok", <<>>)
    /\ mcu_pwm' = <<>>
    /\ UNCHANGED runout_helper
    /\ UNCHANGED <<tfan, threads, pmgr, config, hstate, mcu_last, pwm_calls,
                   set_target, ncmd>>

\* The printer enters the shutdown state: printer.is_shutdown() is true from
\* now on and the "klippy:shutdown" handler of the heater has run.
printer_shutdown ==
    /\ ~pheaters.shutdown
    /\ pheaters' = [pheaters EXCEPT !.shutdown = TRUE]
    /\ is_shutdown' = TRUE
    /\ mcu_pwm' = <<>>
    /\ op' = Op("_handle_shutdown", <<>>, "ok", <<>>)
    /\ UNCHANGED runout_helper
    /\ UNCHANGED <<tfan, threads, pmgr, config, smooth_time, inv_smooth_time,
                   last_temp, smoothed_temp, target_temp, last_temp_time,
                   next_pwm_time, last_pwm_value, can_extrude, control,
                   mcu_last, pwm_calls, set_target, ncmd>>

\* ------------------------------------------------- the registry on its own
\* Heaters are set up, given a target, disabled and enabled, and turned off
\* together.
RegistryDegrees == {50}

RegistryInit ==
    \E profile \in Profiles :
        /\ HeaterInit(BangConfig, profile)
        /\ ProfileManagerIdle

RegistryNext ==
    /\ ncmd < MaxRegistryCommands
    /\ \/ \E section \in HeaterSections : setup_heater(section)
       \/ \E heater_name \in HeaterNames, degrees \in RegistryDegrees :
             set_temperature(heater_name, degrees, FALSE, FALSE)
       \/ \E heater_name \in HeaterNames, enabled \in BOOLEAN :
             set_enabled(heater_name, enabled)
       \/ turn_off_all_heaters

RegistrySpec == RegistryInit /\ [][RegistryNext]_vars

\* ------------------------------------------------ commands that wait
\* The extruder with a 2 s sensor (the smoothed temperature follows the
\* samples at once) under each of the three algorithms: it is set up, given
\* a target with or without waiting, waited for with TEMPERATURE_WAIT and
\* turned off, while samples arrive and the printer may shut down.
WaitConfig == <<0, 280, 300, 100, 8>>
WaitTemps == {AMBIENT_TEMP, 200}
WaitDegrees == {200}
WaitSensors == {<<"extruder">>, <<"heater_generic", "spare">>}
WaitMinimums == {<<>>, <<100>>}
WaitMaximums == {<<>>, <<50>>}

WaitInit ==
    \E profile \in Profiles :
        /\ HeaterInit(WaitConfig, profile)
        /\ ProfileManagerIdle

WaitCommand ==
    /\ ncmd < MaxWaitCommands
    /\ \/ setup_heater(MainSection)
       \/ \E heater_name \in HeaterNames, degrees \in WaitDegrees,
             wait \in BOOLEAN, debugoutput \in BOOLEAN :
             set_temperature(heater_name, degrees, wait, debugoutput)
       \/ \E sensor_name \in WaitSensors, minimum \in WaitMinimums,
             maximum \in WaitMaximums, debugoutput \in BOOLEAN :
             cmd_TEMPERATURE_WAIT(sensor_name, minimum, maximum,
                                  debugoutput)
       \/ turn_off_all_heaters

WaitNext ==
    \/ WaitCommand
    \/ \E temp \in WaitTemps : temperature_callback(temp)
    \/ wait_poll
    \/ wait_wake
    \/ printer_shutdown

WaitSpec == WaitInit /\ [][WaitNext]_vars

\* The reactor runs the blocked command again when its pause is over.
WaitFairSpec == WaitSpec /\ WF_vars(wait_poll) /\ WF_vars(wait_wake)

\* ---------------------------------------------------------- TemperatureFan
\* Fan speeds are in the duty unit (0.01).  The sections that configure a
\* temperature fan: min_speed 0.3 and max_speed 1.0 (the defaults), the
\* temperatures, and the control algorithm.
FanConfigs ==
    {[min_temp |-> 0, max_temp |-> 100, target_temp |-> 40,
      min_speed |-> 30, max_speed |-> 100, control |-> "watermark"],
     [min_temp |-> 0, max_temp |-> 100, target_temp |-> 40,
      min_speed |-> 30, max_speed |-> 100, control |-> "curve"]}

\* Parameters of the two commands (<<>> when not given).
FanTargets == {<<>>, <<50>>, <<150>>}
FanMinSpeeds == {<<>>, <<50>>, <<-50>>}
FanMaxSpeeds == {<<>>, <<20>>, <<150>>}
FanEnables == {<<>>, <<0>>, <<2>>}

\* TemperatureFan.__init__: the fields the two commands use; fan_speed is
\* the speed the commands have sent to the fan (<<>> when none).
TemperatureFan(conf) ==
    [min_temp |-> conf.min_temp, max_temp |-> conf.max_temp,
     min_speed |-> conf.min_speed, max_speed |-> conf.max_speed,
     target_temp_conf |-> conf.target_temp, target_temp |-> conf.target_temp,
     control |-> conf.control, enabled |-> 1, fan_speed |-> <<>>]

\* A [temperature_fan] section is loaded.
TemperatureFan_init(conf) ==
    /\ tfan = <<>>
    /\ tfan' = << TemperatureFan(conf) >>
    /\ ncmd' = ncmd + 1
    /\ mcu_pwm' = <<>>
    /\ op' = Op("TemperatureFan", <<conf>>, "ok", <<>>)
    /\ UNCHANGED runout_helper
    /\ UNCHANGED <<pheaters, threads, pmgr, config, hstate, mcu_last,
                   pwm_calls, set_target>>

\* gcmd.get_float(name, default) of a parameter.
FanParam(arg, default) == IF arg = <<>> THEN default ELSE arg[1]

\* The range check of set_min_speed and set_max_speed.
FanSpeedOutOfRange(speed) == speed # 0 /\ (speed < 0 \/ speed > 100)

\* The range check of TemperatureFan.set_temp.
FanTempOutOfRange(f, degrees) ==
    degrees # 0 /\ (degrees < f.min_temp \/ degrees > f.max_temp)

\* set_min_speed, set_max_speed and set_temp as the two commands call them
\* one after the other: the fan after the calls and whether one has raised.
fan_set_all(f, min_speed, max_speed, degrees) ==
    IF FanSpeedOutOfRange(min_speed)
    THEN [ok |-> FALSE, fan |-> f]
    ELSE IF FanSpeedOutOfRange(max_speed)
    THEN [ok |-> FALSE, fan |-> [f EXCEPT !.min_speed = min_speed]]
    ELSE IF FanTempOutOfRange(f, degrees)
    THEN [ok |-> FALSE,
          fan |-> [f EXCEPT !.min_speed = min_speed,
                            !.max_speed = max_speed]]
    ELSE [ok |-> TRUE,
          fan |-> [f EXCEPT !.min_speed = min_speed,
                            !.max_speed = max_speed,
                            !.target_temp = degrees]]

\* SET_TEMPERATURE_FAN_TARGET TARGET= MIN_SPEED= MAX_SPEED=
cmd_SET_TEMPERATURE_FAN_TARGET(target, min_arg, max_arg) ==
    /\ tfan # <<>>
    /\ LET f == tfan[1]
           min_speed == FanParam(min_arg, f.min_speed)
           max_speed == FanParam(max_arg, f.max_speed)
           r == fan_set_all(f, min_speed, max_speed,
                            FanParam(target, f.target_temp_conf))
           args == <<target, min_arg, max_arg>>
       IN  IF target # <<>> /\ f.control = "curve"
           THEN /\ op' = Op("SET_TEMPERATURE_FAN_TARGET", args,
                            "gcode_error", <<>>)
                /\ UNCHANGED tfan
           ELSE IF min_speed > max_speed
           THEN /\ op' = Op("SET_TEMPERATURE_FAN_TARGET", args,
                            "command_error", <<>>)
                /\ UNCHANGED tfan
           ELSE /\ op' = Op("SET_TEMPERATURE_FAN_TARGET", args,
                            IF r.ok THEN "ok" ELSE "command_error", <<>>)
                /\ tfan' = << r.fan >>
    /\ ncmd' = ncmd + 1
    /\ mcu_pwm' = <<>>
    /\ UNCHANGED runout_helper
    /\ UNCHANGED <<pheaters, threads, pmgr, config, hstate, mcu_last,
                   pwm_calls, set_target>>

\* SET_TEMPERATURE_FAN TARGET= MIN_SPEED= MAX_SPEED= ENABLE=
cmd_SET_TEMPERATURE_FAN(target, min_arg, max_arg, enable) ==
    /\ tfan # <<>>
    /\ LET f == tfan[1]
           min_speed == FanParam(min_arg, f.min_speed)
           max_speed == FanParam(max_arg, f.max_speed)
           enabled == FanParam(enable, f.enabled)
           e == [f EXCEPT !.enabled = enabled]
           r == fan_set_all(e, min_speed, max_speed,
                            FanParam(target, f.target_temp_conf))
           args == <<target, min_arg, max_arg, enable>>
       IN  IF min_speed > max_speed
           THEN /\ op' = Op("SET_TEMPERATURE_FAN", args,
                            "command_error", <<>>)
                /\ UNCHANGED tfan
           ELSE IF target # <<>> /\ f.control = "curve"
           THEN /\ op' = Op("SET_TEMPERATURE_FAN", args, "gcode_error",
                            <<>>)
                /\ UNCHANGED tfan
           ELSE IF enabled < 0 \/ enabled > 1
           THEN /\ op' = Op("SET_TEMPERATURE_FAN", args, "gcode_error",
                            <<>>)
                /\ UNCHANGED tfan
           ELSE /\ op' = Op("SET_TEMPERATURE_FAN", args,
                            IF r.ok THEN "ok" ELSE "command_error", <<>>)
                /\ tfan' =
                      << IF r.ok /\ enabled = 0
                         THEN [r.fan EXCEPT !.fan_speed = <<0>>]
                         ELSE r.fan >>
    /\ ncmd' = ncmd + 1
    /\ mcu_pwm' = <<>>
    /\ UNCHANGED runout_helper
    /\ UNCHANGED <<pheaters, threads, pmgr, config, hstate, mcu_last,
                   pwm_calls, set_target>>

FanInit ==
    /\ HeaterInit(BangConfig, WatermarkProfile)
    /\ ProfileManagerIdle

FanNext ==
    /\ ncmd < MaxFanCommands
    /\ \/ \E conf \in FanConfigs : TemperatureFan_init(conf)
       \/ \E target \in FanTargets, min_arg \in FanMinSpeeds,
             max_arg \in FanMaxSpeeds :
             cmd_SET_TEMPERATURE_FAN_TARGET(target, min_arg, max_arg)
       \/ \E target \in FanTargets, min_arg \in FanMinSpeeds,
             max_arg \in FanMaxSpeeds, enable \in FanEnables :
             cmd_SET_TEMPERATURE_FAN(target, min_arg, max_arg, enable)

FanSpec == FanInit /\ [][FanNext]_vars

\* --------------------------------------------------------- the lock protocol
\* What each operation does with Heater.lock, as the sequence of its
\* events: "acquire" and "release" are the entry and the exit of a
\* "with self.lock:" block, "pause" is reactor.pause, "raise" an exception
\* leaving the code at that point; the other events name the work done in
\* between.  The sensor thread runs temperature_callback; the reactor
\* thread runs greenlets, one at a time, and changes greenlet at a pause.
WithLock(body) == <<"acquire">> \o body \o <<"release">>

\* Heater.temperature_callback; raises: control.temperature_update raises,
\* and the with statement releases the lock on the way out.
temperature_callback_events(raises) ==
    WithLock(IF raises THEN <<"raise">> ELSE <<"temperature_update">>)

\* Heater.set_temp; the range check raises before the lock is taken.
set_temp_events(in_range) ==
    IF in_range THEN WithLock(<<"assign">>) ELSE <<"raise">>

get_temp_events == WithLock(<<"read">>)

\* Heater.check_busy calls control.check_busy inside the lock; none of the
\* three algorithms calls back into the heater there.
check_busy_events == WithLock(<<"check_busy">>)

set_control_events == WithLock(<<"assign">>)

stats_events == WithLock(<<"read">>)

\* Heater.get_status reads the profile name after the lock is released.
get_status_events == WithLock(<<"read">>) \o <<"get_profile">>

\* The constructor of an algorithm: ControlPID and ControlVelocityPID call
\* heater.get_temp unless load_clean is set, ControlBangBang never does.
constructor_events(kind, load_clean) ==
    IF kind = "watermark" \/ load_clean THEN <<>> ELSE get_temp_events

\* Mutant: the algorithm is constructed inside set_control's lock.
load_profile_events_locked(kind, load_clean) ==
    WithLock(constructor_events(kind, load_clean) \o <<"assign">>)

\* ProfileManager.load_profile, lines 549-550: lookup_control, then
\* set_control.
load_profile_events(kind, load_clean) ==
    constructor_events(kind, load_clean) \o set_control_events

\* PrinterHeaters._wait_for_temperature with n passes through the loop
\* body: check_busy has returned when the body reports the temperatures
\* (_get_temp calls get_temp) and pauses.
RECURSIVE wait_for_temperature_events(_)
wait_for_temperature_events(n) ==
    IF n = 0 THEN check_busy_events
    ELSE check_busy_events \o get_temp_events \o <<"pause">>
            \o wait_for_temperature_events(n - 1)

\* PrinterHeaters.set_temperature(heater, temp, wait=True)
set_temperature_events(n) ==
    set_temp_events(TRUE) \o wait_for_temperature_events(n)

\* PrinterHeaters.cmd_TEMPERATURE_WAIT with n passes through the loop body.
RECURSIVE TEMPERATURE_WAIT_events(_)
TEMPERATURE_WAIT_events(n) ==
    IF n = 0 THEN get_temp_events
    ELSE get_temp_events \o <<"pause">> \o TEMPERATURE_WAIT_events(n - 1)

MaxPauses == 2
ControlKinds == {"watermark", "pid", "pid_v"}

\* What the gcode greenlet runs, one command after the other, and what the
\* reactor's timers and webhooks run while a command is paused.
GcodePrograms ==
    {set_temp_events(in_range) : in_range \in BOOLEAN}
       \cup {get_temp_events}
       \cup {load_profile_events(kind, load_clean) :
                kind \in ControlKinds, load_clean \in BOOLEAN}
       \cup {set_temperature_events(n) : n \in 0..MaxPauses}
       \cup {TEMPERATURE_WAIT_events(n) : n \in 0..MaxPauses}
TimerPrograms == {stats_events, get_status_events, check_busy_events}

\* The effect of the event e of context ctx on the lock: an acquire waits
\* until the lock is free, whoever holds it.
LockEvent(ctx, e) ==
    CASE e = "acquire" -> lock = "free" /\ lock' = ctx
      [] e = "release" -> lock' = "free"
      [] OTHER -> UNCHANGED lock

LockFrame ==
    UNCHANGED <<periph, pmgr, config, hstate, mcu_pwm, mcu_last, pwm_calls,
                set_target, ncmd, unlocked>>

\* The MCU delivers a sample: the sensor thread calls temperature_callback.
sensor_start(raises) ==
    /\ sensor_pc = <<>>
    /\ sensor_pc' = temperature_callback_events(raises)
    /\ op' = Op("temperature_callback", <<raises>>, "called", <<>>)
    /\ UNCHANGED <<lock, cmd_pc>>
    /\ LockFrame

sensor_step ==
    /\ sensor_pc # <<>>
    /\ LockEvent("sensor", Head(sensor_pc))
    /\ sensor_pc' = Tail(sensor_pc)
    /\ op' = Op("sensor", <<Head(sensor_pc)>>, "ok", <<>>)
    /\ UNCHANGED cmd_pc
    /\ LockFrame

Greenlet(name, events) == [name |-> name, events |-> events, paused |-> FALSE]

\* A gcode command starts when no other command is in progress.
gcode_start(events) ==
    /\ cmd_pc = <<>>
    /\ events # <<>>
    /\ cmd_pc' = << Greenlet("gcode", events) >>
    /\ op' = Op("gcode", events, "called", <<>>)
    /\ UNCHANGED <<lock, sensor_pc>>
    /\ LockFrame

\* A timer or webhooks callback runs when the reactor is idle or while the
\* command is in reactor.pause.
timer_start(events) ==
    /\ \/ cmd_pc = <<>>
       \/ Len(cmd_pc) = 1 /\ cmd_pc[1].paused
    /\ cmd_pc' = << Greenlet("timer", events) >>
                    \o [i \in DOMAIN cmd_pc |->
                           [cmd_pc[i] EXCEPT !.paused = FALSE]]
    /\ op' = Op("timer", events, "called", <<>>)
    /\ UNCHANGED <<lock, sensor_pc>>
    /\ LockFrame

\* The reactor thread runs the next event of its running greenlet.  At a
\* pause the reactor turns to its other work; a greenlet that returned or
\* raised is gone.
reactor_step ==
    /\ cmd_pc # <<>>
    /\ LET g == cmd_pc[1]
           e == Head(g.events)
           rest == [g EXCEPT !.events = Tail(g.events),
                             !.paused = (e = "pause")]
       IN  /\ LockEvent(g.name, e)
           /\ cmd_pc' = IF rest.events = <<>> THEN Tail(cmd_pc)
                        ELSE <<rest>> \o Tail(cmd_pc)
           /\ op' = Op(g.name, <<e>>, "ok", <<>>)
    /\ UNCHANGED sensor_pc
    /\ LockFrame

DeadlockInit ==
    /\ \E profile \in Profiles : HeaterInit(BangConfig, profile)
    /\ ProfileManagerIdle

DeadlockNext ==
    \/ \E raises \in BOOLEAN : sensor_start(raises)
    \/ sensor_step
    \/ \E events \in GcodePrograms : gcode_start(events)
    \/ \E events \in TimerPrograms : timer_start(events)
    \/ reactor_step

DeadlockSpec == DeadlockInit /\ [][DeadlockNext]_vars

\* A thread blocked in Lock.acquire is woken when the lock is released, and
\* the lock is held for one callback or one short block at a time: a
\* thread that finds the lock free again and again does take it.
DeadlockFairSpec ==
    DeadlockSpec /\ SF_vars(sensor_step) /\ SF_vars(reactor_step)

\* ------------------------------------------------------ filament runout
\* RunoutHelper of filament_switch_sensor.py with the SwitchSensor that
\* owns it.  Times are reactor.monotonic() in seconds; NEVER stands for
\* reactor.NEVER, later than every time.  Next to the fields of the
\* RunoutHelper the record keeps what the helper reads from the printer
\* (ready, now, extruder_pos, is_printing), the reactor's callback queue, the
\* handler that is running and where it stands, and scheduled: a handler
\* was scheduled by note_filament_present and its script has not finished.
NEVER == 1000
READY_DELAY == 2
MaxTime == 4
MaxExtrude == 2
MaxRunoutCommands == 5

RunoutConfigs ==
    [pause_on_runout : BOOLEAN, insert_gcode : BOOLEAN,
     immediate_runout_gcode : BOOLEAN, runout_distance : {0, 2},
     event_delay : {1}]

\* RunoutHelper.__init__ for a section that has a runout_gcode.
RunoutHelper(conf) ==
    [runout_pause |-> conf.pause_on_runout,
     runout_gcode |-> TRUE,
     insert_gcode |-> conf.insert_gcode,
     immediate_runout_gcode |-> conf.immediate_runout_gcode,
     event_delay |-> conf.event_delay,
     runout_distance |-> conf.runout_distance,
     min_event_systime |-> NEVER,
     filament_present |-> FALSE,
     sensor_enabled |-> TRUE,
     runout_position |-> 0,
     runout_elapsed |-> 0,
     runout_distance_timer |-> FALSE,
     ready |-> FALSE, now |-> 0, extruder_pos |-> 0, is_printing |-> FALSE,
     callbacks |-> <<>>, running |-> "idle", scheduled |-> FALSE]

\* RunoutHelper.reset_runout_distance_info
reset_runout_distance_info(r) ==
    [r EXCEPT !.runout_elapsed = 0, !.runout_distance_timer = FALSE]

\* note_filament_present, line 113: the event is not processed.
note_gated(r, force) == r.now < r.min_event_systime

\* RunoutHelper.note_filament_present: the helper afterwards and what the
\* call did: "unchanged" (line 110), "gated" (line 117), "sent" (the
\* printer event only), "insert" or "runout" (a handler was scheduled too).
note_filament_present(r, is_filament_present, force) ==
    LET r1 == [r EXCEPT !.filament_present = is_filament_present]
        sch(kind) == [r1 EXCEPT !.min_event_systime = NEVER,
                                !.callbacks = Append(r.callbacks, kind),
                                !.scheduled = TRUE]
    IN  IF is_filament_present = r.filament_present /\ ~force
        THEN [r |-> r, result |-> "unchanged"]
        ELSE IF note_gated(r, force)
        THEN [r |-> r1, result |-> "gated"]
        ELSE IF ~r.sensor_enabled
        THEN [r |-> r1, result |-> "sent"]
        ELSE IF is_filament_present
        THEN IF ~r.is_printing /\ r.insert_gcode
             THEN [r |-> sch("insert"), result |-> "insert"]
             ELSE [r |-> r1, result |-> "sent"]
        ELSE IF r.is_printing /\ r.runout_gcode
        THEN [r |-> sch("runout"), result |-> "runout"]
        ELSE [r |-> r1, result |-> "sent"]

\* RunoutHelper._exec_gcode once run_script has returned.
exec_gcode_done(r) ==
    [r EXCEPT !.min_event_systime = r.now + r.event_delay]

\* RunoutHelper._execute_runout up to the first point where it waits: the
\* pause of pause_delay, or the script when pause_on_runout is off.
execute_runout(r) ==
    [r EXCEPT !.running = IF r.runout_pause THEN "pause"
                          ELSE "runout_script"]

\* RunoutHelper._runout_event_handler, lines 65-72, after the immediate
\* script if there is one.
runout_event_handler(r) ==
    IF r.runout_distance > 0
    THEN IF ~r.runout_distance_timer
         THEN [r EXCEPT !.runout_position = r.extruder_pos,
                        !.runout_distance_timer = TRUE,
                        !.running = "idle"]
         ELSE [r EXCEPT !.running = "idle"]
    ELSE execute_runout(r)

RunoutFrame ==
    UNCHANGED <<pheaters, tfan, pmgr, config, hstate, mcu_pwm, mcu_last,
                pwm_calls, set_target, threads>>

\* SwitchSensor.__init__ for a filament_switch_sensor section.
SwitchSensor_init(conf) ==
    /\ runout_helper = <<>>
    /\ runout_helper' = << RunoutHelper(conf) >>
    /\ op' = Op("SwitchSensor", <<conf>>, "ok", <<>>)
    /\ UNCHANGED ncmd
    /\ RunoutFrame

\* RunoutHelper._handle_ready
runout_handle_ready ==
    /\ runout_helper # <<>>
    /\ ~runout_helper[1].ready
    /\ runout_helper' =
          << [runout_helper[1] EXCEPT
                 !.ready = TRUE,
                 !.min_event_systime = runout_helper[1].now + READY_DELAY] >>
    /\ op' = Op("_handle_ready", <<>>, "ok", <<>>)
    /\ UNCHANGED ncmd
    /\ RunoutFrame

\* The sensor is set up and klippy:ready was sent.
RunoutReady == runout_helper # <<>> /\ runout_helper[1].ready

\* reactor.monotonic() advances.
runout_tick ==
    /\ RunoutReady
    /\ runout_helper[1].now < MaxTime
    /\ runout_helper' =
          << [runout_helper[1] EXCEPT !.now = runout_helper[1].now + 1] >>
    /\ op' = Op("monotonic", <<>>, "ok", <<runout_helper[1].now + 1>>)
    /\ UNCHANGED ncmd
    /\ RunoutFrame

\* The extruder advances while the printer prints.
extruder_move ==
    /\ RunoutReady
    /\ runout_helper[1].is_printing
    /\ runout_helper[1].extruder_pos < MaxExtrude
    /\ runout_helper' =
          << [runout_helper[1] EXCEPT
                 !.extruder_pos = runout_helper[1].extruder_pos + 1] >>
    /\ op' = Op("extruder_move", <<>>, "ok", <<>>)
    /\ UNCHANGED ncmd
    /\ RunoutFrame

\* SwitchSensor._button_handler(eventtime, state)
button_handler(state) ==
    /\ RunoutReady
    /\ LET n == note_filament_present(runout_helper[1], state, FALSE)
       IN  /\ runout_helper' = << n.r >>
           /\ op' = Op("note_filament_present", <<state, FALSE>>, n.result,
                       <<>>)
    /\ ncmd' = ncmd + 1
    /\ RunoutFrame

\* The printer starts printing: idle_timeout sends idle_timeout:printing
\* and RunoutHelper._handle_printing runs.
handle_printing ==
    /\ RunoutReady
    /\ ~runout_helper[1].is_printing
    /\ LET r == [runout_helper[1] EXCEPT !.is_printing = TRUE]
           n == note_filament_present(r, r.filament_present, TRUE)
       IN  /\ runout_helper' = << n.r >>
           /\ op' = Op("note_filament_present",
                       <<r.filament_present, TRUE>>, n.result, <<>>)
    /\ ncmd' = ncmd + 1
    /\ RunoutFrame

\* The print ends or is paused: idle_timeout and print_stats no longer
\* report printing.
printing_ends ==
    /\ RunoutReady
    /\ runout_helper[1].is_printing
    /\ runout_helper' = << [runout_helper[1] EXCEPT !.is_printing = FALSE] >>
    /\ op' = Op("printing_ends", <<>>, "ok", <<>>)
    /\ ncmd' = ncmd + 1
    /\ RunoutFrame

\* The reactor runs the next registered callback, _insert_event_handler or
\* _runout_event_handler, up to the first point where it waits: a script
\* is the time run_script takes, with its M400.
run_callback ==
    /\ RunoutReady
    /\ runout_helper[1].callbacks # <<>>
    /\ runout_helper[1].running = "idle"
    /\ LET r == [runout_helper[1] EXCEPT
                    !.callbacks = Tail(runout_helper[1].callbacks)]
           kind == Head(runout_helper[1].callbacks)
       IN  /\ runout_helper' =
                 << IF kind = "insert"
                    THEN [r EXCEPT !.running = "insert_script"]
                    ELSE IF r.immediate_runout_gcode
                    THEN [r EXCEPT !.running = "immediate_script"]
                    ELSE runout_event_handler(r) >>
           /\ op' = Op("run_callback", <<kind>>, "ok", <<>>)
    /\ UNCHANGED ncmd
    /\ RunoutFrame

\* The running handler goes on from where it waited: a script or the pause
\* of _execute_runout is over.
handler_continue ==
    /\ RunoutReady
    /\ runout_helper[1].running # "idle"
    /\ LET r == runout_helper[1]
           at == r.running
           idle == [r EXCEPT !.running = "idle"]
       IN  /\ runout_helper' =
                 << CASE at = "insert_script" ->
                            [exec_gcode_done(idle) EXCEPT
                                !.scheduled = FALSE]
                      [] at = "immediate_script" ->
                            runout_event_handler(exec_gcode_done(idle))
                      [] at = "pause" ->
                            [r EXCEPT !.running = "runout_script"]
                      [] at = "runout_script" ->
                            [reset_runout_distance_info(
                                exec_gcode_done(idle)) EXCEPT
                                !.scheduled = FALSE] >>
           /\ op' = Op("handler_continue", <<at>>, "ok", <<>>)
    /\ UNCHANGED ncmd
    /\ RunoutFrame

\* RunoutHelper._pause_after_distance, run by the reactor while the timer
\* is registered and no handler is running.
pause_after_distance ==
    /\ RunoutReady
    /\ runout_helper[1].runout_distance_timer
    /\ runout_helper[1].running = "idle"
    /\ LET r == runout_helper[1]
           runout_elapsed == Max(0, r.extruder_pos - r.runout_position)
       IN  IF runout_elapsed < r.runout_distance
           THEN /\ runout_helper' =
                      << [r EXCEPT !.runout_elapsed = runout_elapsed] >>
                /\ op' = Op("_pause_after_distance", <<>>, "again", <<>>)
           ELSE /\ runout_helper' = << execute_runout(r) >>
                /\ op' = Op("_pause_after_distance", <<>>, "runout", <<>>)
    /\ UNCHANGED ncmd
    /\ RunoutFrame

\* SwitchSensor.reset
SwitchSensor_reset(r) ==
    LET r1 == reset_runout_distance_info(r)
    IN  note_filament_present(r1, r1.filament_present, TRUE)

\* RunoutHelper.cmd_SET_FILAMENT_SENSOR with ENABLE and RESET (<<>> when
\* absent) and without RUNOUT_DISTANCE and SMART.
cmd_SET_FILAMENT_SENSOR(enable, reset) ==
    /\ RunoutReady
    /\ LET r == runout_helper[1]
           info_only == enable = <<>> /\ reset = <<>>
           changed == enable # <<>> /\ (enable[1] = 1) # r.sensor_enabled
           r1 == IF enable # <<>>
                 THEN [r EXCEPT !.sensor_enabled = (enable[1] = 1)]
                 ELSE r
           do_reset == changed \/ (reset # <<>> /\ reset[1] = 1)
           n == IF ~info_only /\ do_reset THEN SwitchSensor_reset(r1)
                ELSE [r |-> r1, result |-> "no_reset"]
       IN  /\ runout_helper' = << IF info_only THEN r ELSE n.r >>
           /\ op' = Op("SET_FILAMENT_SENSOR", <<enable, reset>>,
                       IF info_only THEN "info" ELSE n.result, <<>>)
    /\ ncmd' = ncmd + 1
    /\ RunoutFrame

RunoutEnables == {<<>>, <<0>>, <<1>>}
RunoutResets == {<<>>, <<1>>}

RunoutInit ==
    /\ HeaterInit(BangConfig, WatermarkProfile)
    /\ ProfileManagerIdle

RunoutNext ==
    \/ \E conf \in RunoutConfigs : SwitchSensor_init(conf)
    \/ runout_handle_ready
    \/ runout_tick
    \/ extruder_move
    \/ run_callback
    \/ handler_continue
    \/ pause_after_distance
    \/ /\ ncmd < MaxRunoutCommands
       /\ \/ \E state \in BOOLEAN : button_handler(state)
          \/ handle_printing
          \/ printing_ends
          \/ \E enable \in RunoutEnables, reset \in RunoutResets :
                cmd_SET_FILAMENT_SENSOR(enable, reset)

RunoutSpec == RunoutInit /\ [][RunoutNext]_vars

\* ================================================================== claims
IsCallback == op.name = "temperature_callback"

\* C1: set_temp(degrees) with degrees nonzero and outside
\* [min_temp, max_set_temp] fails with a command error and leaves every
\* Heater field as it was.
C1_SetTempRejected ==
    [][(/\ op'.name = "set_temp"
        /\ op'.args[1] # 0
        /\ (op'.args[1] < min_temp \/ op'.args[1] > max_set_temp))
       => (/\ op'.result = "command_error"
           /\ UNCHANGED <<config, hstate>>)]_vars

\* A rejected set_temp above max_set_temp while a nonzero target is set.
C1_Witness ==
    /\ op.name = "set_temp"
    /\ op.result = "command_error"
    /\ op.args[1] > max_set_temp
    /\ target_temp > 0

\* C2: set_temp(degrees) with degrees = 0 or in [min_temp, max_set_temp]
\* succeeds, and a get_temp that follows with no other change of the target
\* in between returns degrees as its target, stale sensor or not.
C2_SetThenGet ==
    [][/\ (/\ op'.name = "set_temp"
           /\ (\/ op'.args[1] = 0
               \/ (min_temp <= op'.args[1] /\ op'.args[1] <= max_set_temp)))
          => (op'.result = "ok" /\ set_target' = <<op'.args[1]>>)
       /\ (op'.name = "get_temp" /\ set_target # NoTarget)
          => op'.ret[2] = set_target[1]]_vars

\* get_temp on a stale sensor returns the nonzero target set before.
C2_Witness ==
    /\ op.name = "get_temp"
    /\ set_target # NoTarget
    /\ set_target[1] # 0
    /\ last_temp_time < op.args[1] - STALE_TIME
    /\ smoothed_temp # 0
    /\ op.ret = <<0, set_target[1]>>

\* C3: once is_shutdown is latched, every write set_pwm issues to the
\* output channel carries duty 0.
C3_ShutdownWritesZero ==
    is_shutdown => \A i \in DOMAIN mcu_pwm : mcu_pwm[i].value = 0

\* After the latch, with a positive target, the algorithm asked for a
\* nonzero duty and 0 was written.
C3_Witness ==
    /\ is_shutdown
    /\ IsCallback
    /\ target_temp > 0
    /\ pwm_calls[Len(pwm_calls)].value > 0
    /\ mcu_pwm # <<>>
    /\ mcu_pwm[1].value = 0

\* C4: is_shutdown starts false, the shutdown event sets it, and no
\* operation sets it back to false.
C4_ShutdownLatch ==
    /\ is_shutdown = FALSE
    /\ [][/\ is_shutdown => is_shutdown'
          /\ op'.name = "_handle_shutdown" => is_shutdown']_vars

\* The latch is still set after the last command of a run has succeeded,
\* with a sample delivered.
C4_Witness ==
    /\ is_shutdown
    /\ ncmd = MaxCommands
    /\ op.name \in {"set_temp", "set_control"}
    /\ op.result = "ok"
    /\ last_temp_time > 0

HeaterOff == target_temp <= 0 \/ is_shutdown

\* The samples still to come reach the re-issue deadline.
SamplesReachDeadline ==
    Max(next_pwm_time, last_temp_time + pwm_delay) <= MaxSamples * pwm_delay

\* C5: while target_temp <= 0 or is_shutdown holds and samples keep
\* arriving, the duty last written becomes 0 (at the latest by the sample
\* that reaches the re-issue deadline) and then stays 0 for as long as the
\* condition holds.
C5_OffDutyGoesZero ==
    /\ [][(HeaterOff /\ HeaterOff' /\ last_pwm_value = 0)
          => last_pwm_value' = 0]_vars
    /\ (HeaterOff /\ SamplesReachDeadline)
          ~> (last_pwm_value = 0 \/ ~HeaterOff)

\* A zero written at the deadline, after the sample before it had its zero
\* suppressed (the duty last written was nonzero and below the threshold).
C5_Witness ==
    /\ IsCallback
    /\ HeaterOff
    /\ Len(pwm_calls) = 2
    /\ pwm_calls[1].forced /\ ~pwm_calls[1].wrote
    /\ pwm_calls[2].forced /\ pwm_calls[2].wrote
    /\ last_pwm_value = 0

\* The duty a set_pwm call ends up with after the override of line 130.
CallEffective(call) == IF call.forced THEN 0 ELSE call.value

\* C6 as stated: two consecutive set_pwm calls whose duty values (the
\* arguments) differ by less than 0.05, the first having written and set
\* the deadline, the second made before that deadline, write once.
C6_Original ==
    [][(/\ IsCallback'
        /\ pwm_calls # <<>>
        /\ LET a == pwm_calls[Len(pwm_calls)]
               b == pwm_calls'[Len(pwm_calls')]
           IN  /\ a.wrote
               /\ Abs(a.value - b.value) < PWM_MIN_CHANGE
               /\ b.read_time < next_pwm_time)
       => ~pwm_calls'[Len(pwm_calls')].wrote]_vars

\* C6 (amended): the same for the duty values left after set_pwm has
\* forced 0 for target_temp <= 0 or is_shutdown.
C6_SuppressSmallChange ==
    [][(/\ IsCallback'
        /\ pwm_calls # <<>>
        /\ LET a == pwm_calls[Len(pwm_calls)]
               b == pwm_calls'[Len(pwm_calls')]
           IN  /\ a.wrote
               /\ Abs(CallEffective(a) - CallEffective(b)) < PWM_MIN_CHANGE
               /\ b.read_time < next_pwm_time)
       => ~pwm_calls'[Len(pwm_calls')].wrote]_vars

\* A second call suppressed although its duty differs from the written one.
C6_Witness ==
    /\ IsCallback
    /\ Len(pwm_calls) = 2
    /\ pwm_calls[1].wrote /\ ~pwm_calls[2].wrote
    /\ CallEffective(pwm_calls[1]) # CallEffective(pwm_calls[2])
    /\ Abs(CallEffective(pwm_calls[1]) - CallEffective(pwm_calls[2]))
          < PWM_MIN_CHANGE
    /\ pwm_calls[2].read_time < next_pwm_time
    /\ mcu_pwm = <<>>

\* C7: while the duty last written is nonzero and samples arrive one report
\* interval apart, consecutive output writes are scheduled at most
\* MAX_HEAT_TIME apart.
C7_RefreshWithinMaxHeatTime ==
    [][(/\ IsCallback'
        /\ mcu_pwm' # <<>>
        /\ mcu_last # <<>>
        /\ mcu_last[1].value # 0)
       => mcu_pwm'[1].time - mcu_last[1].time <= MAX_HEAT_TIME]_vars

\* C8: every output write is scheduled at read_time + pwm_delay, at most
\* MAX_HEAT_TIME after the read_time of the call that issued it.
C8_WriteWithinCeiling ==
    IsCallback =>
        \A i \in DOMAIN mcu_pwm :
            /\ mcu_pwm[i].time = op.args[1] + pwm_delay
            /\ mcu_pwm[i].time - op.args[1] <= MAX_HEAT_TIME

\* C9: get_temp returns (0, target_temp) when last_temp_time is older than
\* the estimated print time minus 5 s and (smoothed_temp, target_temp)
\* otherwise.
C9_GetTempStale ==
    op.name = "get_temp" =>
        IF last_temp_time < op.args[1] - STALE_TIME
        THEN op.ret = <<0, target_temp>>
        ELSE op.ret = <<smoothed_temp, target_temp>>

\* get_temp exactly at the threshold still reports a nonzero reading.
C9_Witness ==
    /\ op.name = "get_temp"
    /\ last_temp_time = op.args[1] - STALE_TIME
    /\ smoothed_temp # 0
    /\ op.ret[1] = smoothed_temp

\* C10: set_control(c, keep_target) installs c and returns the algorithm
\* that was active; target_temp becomes 0 if keep_target is false and is
\* unchanged otherwise; last_temp, smoothed_temp, last_temp_time and
\* last_pwm_value are unchanged.
C10_SetControlFrame ==
    [][op'.name = "set_control"
       => (/\ control' = op'.args[1]
           /\ op'.ret = <<control>>
           /\ target_temp' = IF op'.args[2] THEN target_temp ELSE 0
           /\ UNCHANGED <<last_temp, smoothed_temp, last_temp_time,
                          last_pwm_value>>)]_vars

\* An algorithm of another kind installed with keep_target while the heater
\* is heating toward a positive target.
C10_Witness ==
    /\ op.name = "set_control"
    /\ op.args[2]
    /\ target_temp > 0
    /\ last_pwm_value > 0
    /\ op.ret[1].kind # control.kind
    /\ control = op.args[1]

\* The duty the algorithm passed to set_pwm in the latest callback.
RequestedDuty == pwm_calls[Len(pwm_calls)].value

\* C13: on each ControlBangBang update heating becomes true only if it was
\* false and temp <= target - max_delta, becomes false only if it was true
\* and temp >= target + max_delta, and is unchanged for every temp strictly
\* between the two; the duty requested is max_power when heating, else 0.
C13_BangBangHysteresis ==
    [][(IsCallback' /\ control.kind = "watermark")
       => LET temp == op'.args[2]
              lo == target_temp - control.max_delta
              hi == target_temp + control.max_delta
          IN  /\ (control'.heating /\ ~control.heating) => temp <= lo
              /\ (~control'.heating /\ control.heating) => temp >= hi
              /\ (lo < temp /\ temp < hi)
                    => control'.heating = control.heating
              /\ RequestedDuty' = IF control'.heating THEN max_power ELSE 0
      ]_vars

\* Heating is kept on by a sample strictly inside the band, one degree
\* above the turn-on threshold, and full power is requested.
C13_Witness ==
    /\ IsCallback
    /\ control.kind = "watermark"
    /\ control.heating
    /\ target_temp = 200
    /\ last_temp = target_temp - control.max_delta + 1
    /\ Len(pwm_calls) = 2
    /\ pwm_calls[1].value = max_power
    /\ RequestedDuty = max_power

\* C14: with min_temp 0, max_temp 300, max_set_temp 280, set_temp(250)
\* succeeds, and every sample below 248 of a non-decreasing sequence from 20
\* to 250 leaves a ControlBangBang of max_delta 2 heating at full power.
C14_RisingHeats ==
    /\ op.name = "set_temp"
          => (op.result = "ok" /\ target_temp = RisingTarget)
    /\ (IsCallback /\ last_temp < RisingTarget - control.max_delta)
          => (control.heating /\ RequestedDuty = max_power)

\* The sequence has risen from 20 to 247 degrees and the heater still heats.
C14_Witness ==
    /\ IsCallback
    /\ last_temp = 247
    /\ last_temp_time = MaxSamples * pwm_delay
    /\ smoothed_temp < 247
    /\ control.heating
    /\ last_pwm_value = max_power

\* C15: in a ControlPID update with target > 0, int_sum takes int_sum + ic
\* when the raw output o equals its clamp to [0, max_power]; when o is
\* clamped it takes int_sum + ic only if sign(o) differs from sign(ic) and
\* is otherwise unchanged; so it does not increase when o is clamped to
\* max_power and ic is positive.
C15_AntiWindup ==
    [][(IsCallback' /\ control.kind = "pid" /\ target_temp > 0)
       => LET t == PID_terms(control, op'.args[2], target_temp)
              clamp == IF t.o < 0 THEN 0
                       ELSE IF t.o > max_power THEN max_power ELSE t.o
          IN  /\ RequestedDuty' = clamp
              /\ t.o = clamp => control'.int_sum = control.int_sum + t.ic
              /\ (t.o # clamp /\ Sign(t.o) # Sign(t.ic))
                    => control'.int_sum = control.int_sum + t.ic
              /\ (t.o # clamp /\ Sign(t.o) = Sign(t.ic))
                    => control'.int_sum = control.int_sum
              /\ (t.o > max_power /\ t.ic > 0)
                    => control'.int_sum <= control.int_sum
      ]_vars

\* Two samples far below the target, both answered with max_power: the
\* integral is still 0 although the error, and so ic, was positive twice.
C15_Witness ==
    /\ IsCallback
    /\ control.kind = "pid"
    /\ target_temp > 0
    /\ last_temp_time = 2 * pwm_delay
    /\ Len(pwm_calls) = 2
    /\ pwm_calls[1].value = max_power /\ ~pwm_calls[1].forced
    /\ pwm_calls[2].value = max_power
    /\ control.prev_err > 0
    /\ control.int_sum = 0

\* C16: a ControlVelocityPID update with target <= 0 leaves pwm = 0, and
\* pwm stays 0 until an update of that instance with target > 0.
C16_VelocityIdle ==
    [][/\ (IsCallback' /\ control.kind = "pid_v" /\ target_temp <= 0)
          => control'.pwm = 0
       /\ (/\ control.kind = "pid_v"
           /\ control.pwm = 0
           /\ op'.name # "set_control"
           /\ ~(IsCallback' /\ target_temp > 0))
          => control'.pwm = 0]_vars

\* An instance that asked for a nonzero duty on its previous update is back
\* at 0 after an update with the target at 0 or below.
C16_Witness ==
    /\ IsCallback
    /\ control.kind = "pid_v"
    /\ target_temp <= 0
    /\ control.times[2] > 0
    /\ Len(pwm_calls) = 2
    /\ pwm_calls[1].value > 0
    /\ control.pwm = 0

\* A load_profile that went past its checks installed an algorithm, also
\* when the report that follows the installation raised.
LoadInstalled(o) ==
    o.name = "load_profile" /\ o.result \in {"ok", "format_error"}

RoundTripKeys ==
    {"control", "pid_kp", "pid_ki", "pid_kd", "pid_target", "pid_tolerance"}

\* C17: with a PID-kind algorithm active, PID_PROFILE SAVE=p1 followed by
\* PID_PROFILE LOAD=p1 LOAD_CLEAN=1 installs an algorithm of the kind, and
\* with a profile of the pid_kp, pid_ki, pid_kd, pid_target and
\* pid_tolerance, that were live when SAVE was issued.
C17_ProfileRoundTrip ==
    [][(/\ op.name = "save_profile"
        /\ op.args = <<"p1">>
        /\ op.ret[1].control \in {"pid", "pid_v"}
        /\ op'.name = "load_profile"
        /\ op'.args[1] = "p1"
        /\ op'.args[4] = TRUE)
       => /\ LoadInstalled(op')
          /\ control'.kind = op.ret[1].control
          /\ \A key \in RoundTripKeys :
                 control'.profile[key] = op.ret[1][key]]_vars

\* Witness of C17: the tuned default profile was saved as p1, which took
\* the place of the stored p1, and p1 was then loaded clean.
C17_Witness ==
    /\ LoadInstalled(op)
    /\ op.args[1] = "p1"
    /\ op.args[4] = TRUE
    /\ ncmd = 2
    /\ {"p1", "default"} \subseteq DOMAIN profiles
    /\ profiles["p1"] = profiles["default"]
    /\ live = profiles["p1"]
    /\ control.profile.pid_kp = PidTunedProfile.pid_kp
    /\ control.profile.name = "p1"

\* The section stored for the profile carries a pid_version other than
\* PID_PROFILE_VERSION.
StoredVersionDiffers(profile_name) ==
    LET section == compute_section_name(profile_name)
    IN  /\ section \in DOMAIN configfile
        /\ configfile[section].pid_version # <<>>
        /\ configfile[section].pid_version[1] # PID_PROFILE_VERSION

\* The results with which load_profile raises a gcode error.
LoadErrors == {"unknown_profile", "unknown_default"}

\* C18: PID_PROFILE LOAD of a profile whose stored pid_version differs
\* from PID_PROFILE_VERSION fails with an error and leaves the active
\* control and target_temp alone, whatever DEFAULT, KEEP_TARGET and
\* LOAD_CLEAN are.
C18_IncompatibleLoadFails ==
    [][(/\ op'.name = "load_profile"
        /\ ncmd' = ncmd + 1
        /\ StoredVersionDiffers(op'.args[1]))
       => /\ op'.result \in LoadErrors
          /\ UNCHANGED <<control, target_temp>>]_vars

\* C19: PID_PROFILE LOAD of a name that is not in the profile map installs
\* the algorithm of the DEFAULT profile when DEFAULT is given and in the
\* map; otherwise it fails with an unknown-profile error and leaves the
\* active control, target_temp and the profile map alone.
C19_LoadAbsentName ==
    [][(/\ op'.name = "load_profile"
        /\ ncmd' = ncmd + 1
        /\ op'.args[1] \notin DOMAIN profiles)
       => IF op'.args[2] # <<>> /\ op'.args[2][1] \in DOMAIN profiles
          THEN /\ LoadInstalled(op')
               /\ control'.profile = heap[profiles[op'.args[2][1]]]
          ELSE /\ op'.result \in LoadErrors
               /\ UNCHANGED <<control, target_temp, profiles>>]_vars

\* C20: the profile map always has an entry named "default", and the
\* heater's own section stays in the config file.
C20_DefaultAlwaysExists ==
    /\ "default" \in DOMAIN profiles
    /\ compute_section_name("default") \in DOMAIN configfile

\* C11: every read or write of target_temp, last_temp, smoothed_temp,
\* last_temp_time and last_pwm_value is made by a context that holds the
\* heater's lock: no access without the lock has been made.
C11_GuardedFieldsUnderLock == unlocked = {}

\* C12: while a temperature_callback is inside temperature_update, the
\* installed algorithm is modified by that callback only.
C12_AlgorithmUnderLock ==
    [][(sensor_pc # <<>> /\ control' # control) => sensor_pc' = <<>>]_vars

\* C21: PID_PROFILE REMOVE of a name in the profile map deletes that entry
\* and its section and leaves every other entry and section alone; for a
\* name not in the map it only reports, and changes neither the map nor
\* the config file.  The active control and target_temp are unchanged.
C21_RemoveProfile ==
    [][(op'.name = "remove_profile" /\ ncmd' = ncmd + 1)
       => LET profile_name == op'.args[1]
              section == compute_section_name(profile_name)
          IN  /\ UNCHANGED <<control, target_temp, heap>>
              /\ IF profile_name \in DOMAIN profiles
                 THEN /\ op'.result = "removed"
                      /\ DOMAIN profiles' = DOMAIN profiles \ {profile_name}
                      /\ \A nm \in DOMAIN profiles' :
                             profiles'[nm] = profiles[nm]
                      /\ DOMAIN configfile' = DOMAIN configfile \ {section}
                      /\ \A sec \in DOMAIN configfile' :
                             configfile'[sec] = configfile[sec]
                 ELSE /\ op'.result = "not_found"
                      /\ UNCHANGED <<profiles, configfile>>]_vars

\* Witness of C21: the stored profile p1 was removed, with its section,
\* and the default profile is still there.
C21_Witness ==
    /\ op.name = "remove_profile"
    /\ op.args = <<"p1">>
    /\ op.result = "removed"
    /\ DOMAIN profiles = {"default"}
    /\ compute_section_name("p1") \notin DOMAIN configfile
    /\ compute_section_name("old") \in DOMAIN configfile

\* The results with which set_values raises.
SetValuesErrors == {"gcode_error", "key_error"}

\* C22: PID_PROFILE SET_VALUES without TARGET, KP, KI or KD fails and
\* leaves the active control, target_temp, inv_smooth_time, the profile
\* map and the config file as they were; with all four it installs the
\* new algorithm and stores the profile under the name, in the map and in
\* the config file.
C22_SetValues ==
    [][(op'.name = "set_values" /\ ncmd' = ncmd + 1)
       => LET profile_name == op'.args[1]
              a == op'.args[2]
              section == compute_section_name(profile_name)
          IN  IF a.TARGET = <<>> \/ a.KP = <<>> \/ a.KI = <<>>
                 \/ a.KD = <<>>
              THEN /\ op'.result \in SetValuesErrors
                   /\ UNCHANGED <<control, target_temp, inv_smooth_time,
                                  profiles, heap, configfile>>
              ELSE /\ op'.result = "ok"
                   /\ control'.profile.pid_target = a.TARGET
                   /\ control'.profile.pid_kp = a.KP[1]
                   /\ control'.profile.pid_ki = a.KI[1]
                   /\ control'.profile.pid_kd = a.KD[1]
                   /\ profile_name \in DOMAIN profiles'
                   /\ heap'[profiles'[profile_name]] = control'.profile
                   /\ section \in DOMAIN configfile'
                   /\ configfile'[section].pid_target = a.TARGET
                   /\ configfile'[section].pid_kp = a.KP
                   /\ configfile'[section].pid_ki = a.KI
                   /\ configfile'[section].pid_kd = a.KD]_vars

\* C23: PID_PROFILE SAVE succeeds whatever kind of algorithm is active;
\* afterwards the profile map holds under the name the profile of the
\* active algorithm and the section of the config file holds the same
\* values; a save that fails leaves the map and the config file alone.
C23_SaveAnyKind ==
    [][(op'.name = "save_profile" /\ ncmd' = ncmd + 1)
       => LET profile_name == op'.args[1]
              section == compute_section_name(profile_name)
          IN  /\ op'.result = "ok"
              /\ op'.result # "ok" => UNCHANGED <<profiles, configfile>>
              /\ profile_name \in DOMAIN profiles'
              /\ heap'[profiles'[profile_name]] = control'.profile
              /\ section \in DOMAIN configfile'
              /\ \A i \in DOMAIN PID_PROFILE_OPTIONS :
                     configfile'[section][PID_PROFILE_OPTIONS[i]]
                        = ProfileValue(control'.profile,
                                       PID_PROFILE_OPTIONS[i])]_vars

\* C29 as stated: after a temperature_callback that completes while
\* target_temp <= 0 or is_shutdown holds, last_pwm_value is 0.
C29_Original == (IsCallback /\ HeaterOff) => last_pwm_value = 0

\* C29 (amended): after such a callback last_pwm_value is 0, or it is a
\* nonzero duty below PWM_MIN_CHANGE whose zero write set_pwm has just
\* suppressed because the sample came before next_pwm_time.
C29_OffDutyZeroOrSuppressed ==
    (IsCallback /\ HeaterOff)
    => \/ last_pwm_value = 0
       \/ /\ 0 < last_pwm_value
          /\ last_pwm_value < PWM_MIN_CHANGE
          /\ ~pwm_calls[Len(pwm_calls)].wrote
          /\ pwm_calls[Len(pwm_calls)].read_time < next_pwm_time

\* A callback with the heater off has left a nonzero duty on the output: the
\* zero was suppressed.
C29_Witness ==
    /\ IsCallback
    /\ HeaterOff
    /\ pwm_calls[Len(pwm_calls)].forced
    /\ ~pwm_calls[Len(pwm_calls)].wrote
    /\ 0 < last_pwm_value
    /\ last_pwm_value < PWM_MIN_CHANGE
    /\ mcu_last # <<>>
    /\ mcu_last[1].value = last_pwm_value

\* C30 as stated: set_pwm suppresses a write only when the effective value
\* differs from last_pwm_value by less than 0.05 and read_time is before
\* next_pwm_time.
C30_Original ==
    [][IsCallback'
       => LET b == pwm_calls'[Len(pwm_calls')]
          IN  ~b.wrote
              => /\ Abs(CallEffective(b) - last_pwm_value) < PWM_MIN_CHANGE
                 /\ b.read_time < next_pwm_time]_vars

\* C30 (amended): set_pwm suppresses a write only when the effective value
\* differs from last_pwm_value by less than 0.05 and either read_time is
\* before next_pwm_time or last_pwm_value is 0.  Hence a call at or after
\* next_pwm_time with a nonzero last_pwm_value writes, and so does every
\* call whose value differs from last_pwm_value by 0.05 or more.
C30_SuppressOnlySmallAndEarlyOrZero ==
    [][IsCallback'
       => LET b == pwm_calls'[Len(pwm_calls')]
          IN  ~b.wrote
              => /\ Abs(CallEffective(b) - last_pwm_value) < PWM_MIN_CHANGE
                 /\ (b.read_time < next_pwm_time \/ last_pwm_value = 0)]_vars

\* A call at or after the deadline is suppressed: the duty written last is 0
\* and the new one is 0 too, after an earlier write has set the deadline.
C30_Witness ==
    /\ IsCallback
    /\ Len(pwm_calls) = 2
    /\ ~pwm_calls[2].wrote
    /\ pwm_calls[2].read_time >= next_pwm_time
    /\ next_pwm_time > 0
    /\ last_pwm_value = 0
    /\ mcu_last # <<>>

\* C24: setup_heater for a heater name that is already in the registry
\* fails with "already registered" and leaves the registry as it was: the
\* same Heater object under the name, available_heaters, available_sensors
\* and the gcode-id map not extended, and no Heater constructed.
C24_SetupHeaterTwice ==
    [][(/\ op'.name = "setup_heater"
        /\ ncmd' = ncmd + 1
        /\ LET section == op'.args[1]
           IN  section[Len(section)] \in HeaterNames)
       => (/\ op'.result = "already_registered"
           /\ UNCHANGED <<pheaters, config, hstate>>)]_vars

\* The section "heater_generic extruder" is refused while the Heater of the
\* section "extruder" is registered, with the bed next to it.
C24_Witness ==
    /\ op.name = "setup_heater"
    /\ op.args = << <<"heater_generic", "extruder">> >>
    /\ op.result = "already_registered"
    /\ HeaterNames = {"extruder", "heater_bed"}
    /\ lookup_heater("extruder") = 0
    /\ Len(pheaters.objs) = 1
    /\ pheaters.available_heaters = << <<"extruder">>, <<"heater_bed">> >>

\* The locks held after the first n events of a sequence of lock events.
HeldAfter(events, n) ==
    {l \in {events[j].lock : j \in 1..n} :
        Cardinality({j \in 1..n : /\ events[j].lock = l
                                  /\ events[j].ev = "acquire"})
        > Cardinality({j \in 1..n : /\ events[j].lock = l
                                    /\ events[j].ev = "release"})}

\* C25: after turn_off_all_heaters the target_temp of every registered
\* heater is 0, whatever its min_temp, previous target, enabled flag and
\* algorithm; the lock of every heater is taken and released, and never
\* two locks are held at once.
C25_TurnOffAllHeaters ==
    [][(op'.name = "turn_off_all_heaters" /\ ncmd' = ncmd + 1)
       => (/\ op'.result = "ok"
           /\ pheaters'.heaters = pheaters.heaters
           /\ \A i \in DOMAIN pheaters.heaters :
                 LET obj == pheaters.heaters[i].obj
                 IN  /\ IF obj = 0 THEN target_temp' = 0
                        ELSE pheaters'.objs[obj].target_temp = 0
                     /\ \E j \in DOMAIN op'.ret :
                           /\ op'.ret[j].lock = obj
                           /\ op'.ret[j].ev = "acquire"
           /\ \A n \in 0..Len(op'.ret) :
                 Cardinality(HeldAfter(op'.ret, n)) <= 1
           /\ HeldAfter(op'.ret, Len(op'.ret)) = {})]_vars

\* The extruder and the bed (min_temp 10, PID, disabled) both had a target
\* of 50 and are turned off one after the other.
C25_Witness ==
    /\ op.name = "turn_off_all_heaters"
    /\ HeaterNames = {"extruder", "heater_bed"}
    /\ lookup_heater("extruder") = 0
    /\ LET bed == pheaters.objs[lookup_heater("heater_bed")]
       IN  /\ bed.min_temp > 0
           /\ ~bed.enabled
           /\ bed.kind # control.kind
           /\ bed.target_temp = 0
    /\ target_temp = 0
    /\ Len(op.ret) = 4
    /\ \A j \in {1, 3} : op.ret[j].ev = "acquire" /\ op.ret[j].target = 50
    /\ \A j \in {2, 4} : op.ret[j].ev = "release" /\ op.ret[j].target = 0

\* The heater of the variables was turned off by turn_off_all_heaters and
\* has not been given a target since.
TurnedOff ==
    /\ "extruder" \in HeaterNames
    /\ set_target = <<0>>
    /\ target_temp = 0

\* The slope the active algorithm compares with PID_SETTLE_SLOPE.
SettleSlope ==
    CASE control.kind = "pid" -> control.prev_der
      [] control.kind = "pid_v" -> control.d1
      [] OTHER -> 0

\* The samples have caught up with a heater at ambient temperature: the
\* latest sample and the smoothed temperature are at AMBIENT_TEMP and the
\* slope is 0, so that further samples at AMBIENT_TEMP change nothing of
\* what check_busy reads.
CooledToAmbient ==
    /\ IsCallback
    /\ last_temp = AMBIENT_TEMP
    /\ smoothed_temp = AMBIENT_TEMP
    /\ SettleSlope = 0

\* C26: after turn_off_all_heaters, with samples arriving while the heater
\* cools to ambient temperature, check_busy eventually returns false for
\* each of the three algorithms: once the samples have caught up with the
\* heater at ambient temperature, where check_busy no longer changes, it
\* is false.
C26_SettlesAfterTurnOff == (TurnedOff /\ CooledToAmbient) => ~check_busy

\* A command is blocked in one of the two wait loops.
InWaitLoop == pheaters.waiting # <<>>

\* C27: the wait loops end once the printer is in shutdown.  A test of the
\* loop condition made with the shutdown state set returns, however busy
\* the heater or far from the range the temperature is; a test that does
\* not return is followed by reactor.pause, and only the end of that pause
\* leads to the next test; so after a shutdown the blocked command returns
\* after at most the pause in progress.
C27_WaitEndsOnShutdown ==
    /\ [][(op'.name = "wait_poll" /\ pheaters' # pheaters)
          => /\ InWaitLoop /\ pheaters.waiting[1].pc = "poll"
             /\ pheaters.shutdown => ~InWaitLoop'
             /\ InWaitLoop' => pheaters'.waiting[1].pc = "sleep"]_vars
    /\ [][(/\ InWaitLoop /\ pheaters.waiting[1].pc = "sleep"
           /\ pheaters'.waiting # pheaters.waiting)
          => /\ op'.name = "wait_wake"
             /\ InWaitLoop' /\ pheaters'.waiting[1].pc = "poll"]_vars
    /\ (pheaters.shutdown /\ InWaitLoop) ~> ~InWaitLoop

\* _wait_for_temperature has returned in shutdown although the heater is
\* still busy.
C27_Witness ==
    /\ op.name = "wait_poll"
    /\ op.args = <<"heater">>
    /\ op.result = "returned"
    /\ pheaters.shutdown
    /\ ~InWaitLoop
    /\ target_temp > 0
    /\ check_busy

\* The two commands of the temperature fan.
FanCommands == {"SET_TEMPERATURE_FAN_TARGET", "SET_TEMPERATURE_FAN"}

\* C28: a SET_TEMPERATURE_FAN_TARGET or SET_TEMPERATURE_FAN command that
\* fails with a command error leaves min_speed, max_speed, target_temp and
\* enabled of the fan as they were.
C28_FanCommandErrorKeepsState ==
    [][(/\ op'.name \in FanCommands
        /\ ncmd' = ncmd + 1
        /\ op'.result # "ok")
       => (/\ tfan'[1].min_speed = tfan[1].min_speed
           /\ tfan'[1].max_speed = tfan[1].max_speed
           /\ tfan'[1].target_temp = tfan[1].target_temp
           /\ tfan'[1].enabled = tfan[1].enabled)]_vars

\* C31: after a ControlPID.temperature_update with target <= 0, prev_err
\* and int_sum are 0: the first update after the target is raised again
\* starts from no integral and no previous error.
C31_PidIdleReset ==
    [][(/\ IsCallback'
        /\ control.kind = "pid"
        /\ target_temp <= 0)
       => (/\ control'.prev_err = 0
           /\ control'.int_sum = 0)]_vars

\* The heater was heating toward its target, the target was zeroed, and the
\* next update has cleared the integral of the overshoot before.
C31_Witness ==
    /\ IsCallback
    /\ control.kind = "pid"
    /\ target_temp = 0
    /\ set_target = <<0>>
    /\ Len(pwm_calls) = 2
    /\ ~pwm_calls[1].forced
    /\ pwm_calls[2].forced
    /\ last_temp # 0
    /\ control.prev_err = 0
    /\ control.int_sum = 0

\* The smoothing window of the active algorithm is the one that
\* update_smooth_time derives from the heater's smooth_time.
WindowFromSmoothTime ==
    CASE control.kind = "pid" -> control.smooth = smooth_time + control.dt
      [] control.kind = "pid_v" -> control.smooth_time = smooth_time
      [] OTHER -> TRUE

\* C32: in every reachable state inv_smooth_time is 1 / smooth_time (kept
\* here as its reciprocal), and the smoothing window of the active
\* algorithm is based on the same smooth_time.
C32_InvSmoothTimeDerived ==
    /\ inv_smooth_time = smooth_time
    /\ WindowFromSmoothTime

\* set_control returns in this step (from load_profile's two callers here).
SetControlReturns ==
    /\ op'.name = "set_control"
    /\ (ncmd' # ncmd \/ cmd_pc' # cmd_pc)

\* The target was last assigned by set_control: no set_temp since, and no
\* alter_target at all.
TargetFromSwap ==
    /\ set_target = NoTarget
    /\ \A a \in unlocked : a.field # "target_temp"

\* C33: replacing the algorithm is atomic for temperature_callback.
\* set_control never returns while a callback is between taking and
\* releasing the lock; with keep_target=false it assigns c and target 0
\* together; and a callback that runs the swapped-in algorithm (the only
\* watermark one here) before any later set_temp was called with target 0.
C33_AtomicSwap ==
    [][/\ SetControlReturns => (/\ sensor_pc = <<>>
                                /\ control' = op'.args[1]
                                /\ op'.args[2] \/ target_temp' = 0)
       /\ (/\ sensor_pc' # <<>>
           /\ control'.kind = "watermark"
           /\ TargetFromSwap') => sensor_pc'[1].target_temp = 0]_vars

\* A callback runs the swapped-in algorithm with target 0 after a swap that
\* replaced a heating PID algorithm with target 200.
C33_Witness ==
    /\ IsCallback /\ control.kind = "watermark" /\ TargetFromSwap
    /\ op.ret = <<0>> /\ target_temp = 0 /\ last_pwm_value = 0
    /\ Len(pwm_calls) = 2 /\ pwm_calls[1].value > 0

\* Every key of the profile map maps to a dict with that name.
KeysNamed(prof, hp) == \A k \in DOMAIN prof : hp[prof[k]].name = k

\* C34: stored profiles are changed only by the operation that names them.
\* After every operation each key of the profile map maps to a record of
\* that name, and PID_PROFILE SAVE under a name leaves the records stored
\* under the other names as they were.
C34_StoredProfilesKeepName ==
    [][/\ KeysNamed(profiles', heap')
       /\ (op'.name = "save_profile" /\ ncmd' = ncmd + 1)
          => \A k \in DOMAIN profiles \ {op'.args[1]} :
                 /\ k \in DOMAIN profiles'
                 /\ heap'[profiles'[k]] = heap[profiles[k]]]_vars

\* C35: in every reachable state target_temp is 0 or lies in
\* [min_temp, max_set_temp].
C35_TargetInSetRange ==
    \/ target_temp = 0
    \/ (min_temp <= target_temp /\ target_temp <= max_set_temp)

\* C36: every duty written to the output channel, and last_pwm_value in
\* every reachable state, lies in [0, max_power].
C36_DutyInRange ==
    /\ 0 <= last_pwm_value /\ last_pwm_value <= max_power
    /\ \A i \in DOMAIN mcu_pwm :
           0 <= mcu_pwm[i].value /\ mcu_pwm[i].value <= max_power

\* A velocity PID is installed on a heater that runs at the full duty of
\* its 60 % limit, its pwm seeded from last_pwm_value, the duty last
\* written to the output channel.
C36_Witness ==
    /\ op.name = "set_control" /\ op.args[1].kind = "pid_v"
    /\ control = op.args[1] /\ control.pwm = last_pwm_value
    /\ max_power < 100 /\ last_pwm_value = max_power
    /\ mcu_last # <<>> /\ mcu_last[1].value = max_power

\* C37: in every ControlVelocityPID.temperature_update the interval
\* dt = times[-1] - times[-2] is positive and is the time elapsed since the
\* previous sample delivered to the heater.
C37_VelocityPidInterval ==
    [][(/\ IsCallback'
        /\ last_temp_time' > last_temp_time
        /\ control.kind = "pid_v")
       => LET dt == control'.times[3] - control'.times[2]
          IN  /\ dt > 0
              /\ dt = last_temp_time' - last_temp_time]_vars

\* The events the contexts still have to run: the sensor thread's, and
\* those of the reactor's greenlets by name.
EventsOf(ctx) ==
    IF ctx = "sensor" THEN sensor_pc
    ELSE IF \E i \in DOMAIN cmd_pc : cmd_pc[i].name = ctx
         THEN cmd_pc[CHOOSE i \in DOMAIN cmd_pc : cmd_pc[i].name = ctx].events
         ELSE <<>>

LockContexts == {"sensor", "gcode", "timer"}

WaitsForLock(ctx) == EventsOf(ctx) # <<>> /\ Head(EventsOf(ctx)) = "acquire"

\* C38: the Heater lock never deadlocks.  No context tries to acquire the
\* lock while it or another greenlet of its thread holds it, the lock is
\* not held by a context that has left its operation (by return or by an
\* exception) nor across a reactor.pause, and each context waiting for the
\* lock eventually gets it.
C38_NoDeadlock ==
    /\ [](\A ctx \in LockContexts :
             /\ WaitsForLock(ctx) => lock # ctx
             /\ (WaitsForLock(ctx) /\ cmd_pc # <<>> /\ cmd_pc[1].name = ctx)
                   => lock \in {"free", "sensor"}
             /\ EventsOf(ctx) = <<>> => lock # ctx
             /\ (EventsOf(ctx) # <<>> /\ Head(EventsOf(ctx)) = "pause")
                   => lock # ctx)
    /\ \A ctx \in LockContexts : WaitsForLock(ctx) ~> (lock = ctx)

\* The sensor thread is waiting for the lock while a command that waits
\* for the heater holds it in check_busy, with a reactor.pause ahead.
C38_Witness ==
    /\ WaitsForLock("sensor") /\ lock = "gcode"
    /\ \E i \in DOMAIN EventsOf("gcode") : EventsOf("gcode")[i] = "pause"
    /\ Head(EventsOf("gcode")) = "check_busy"

\* REMOVE has deleted the profile and nothing has stored it again: neither
\* the profile map nor the staged config file has it.
Removed(profile_name) ==
    /\ profile_name \notin DOMAIN profiles
    /\ compute_section_name(profile_name) \notin DOMAIN configfile

\* C39: PID_PROFILE LOAD without DEFAULT of a name that REMOVE has deleted
\* and no SAVE or SET_VALUES has stored again fails with the
\* unknown-profile error, also when the name is that of the active
\* algorithm's profile.
C39_LoadRemovedFails ==
    [][(/\ op'.name = "load_profile"
        /\ ncmd' = ncmd + 1
        /\ op'.args[2] = <<>>
        /\ Removed(op'.args[1]))
       => (/\ op'.result = "unknown_profile"
           /\ UNCHANGED <<control, target_temp>>)]_vars

\* note_filament_present sent a printer event or scheduled a handler.
Dispatched(o) ==
    o.name \in {"note_filament_present", "SET_FILAMENT_SENSOR"}
       /\ o.result \in {"sent", "insert", "runout"}

\* Something is left that will set min_event_systime again: a registered
\* callback, a running handler, or the runout-distance timer.
RunoutPending ==
    \/ runout_helper[1].callbacks # <<>>
    \/ runout_helper[1].running # "idle"
    \/ runout_helper[1].runout_distance_timer

\* C40: from the moment note_filament_present schedules a handler no
\* insert or runout event is dispatched until that handler's script has
\* finished, and event processing is re-enabled in the end: while
\* min_event_systime is NEVER after klippy:ready, the handler that will
\* make it finite again is still registered, running or waiting on the
\* runout-distance timer.
C40_EventGating ==
    [][RunoutReady'
       => /\ (Dispatched(op') /\ ncmd' = ncmd + 1)
                => ~runout_helper[1].scheduled
          /\ runout_helper'[1].min_event_systime = NEVER
                => RunoutPending']_vars

====
